---- MODULE Spec2Model ----
(***************************************************************************)
(* einspect: views over CPython object records, the unsafe capability      *)
(* (views/unsafe.py), the View accessors, drop and base resolution         *)
(* (views/view_base.py) and the move engine (views/_moves.py).             *)
(*                                                                         *)
(* Object memory is modelled per field: the header (ob_refcnt, ob_type,    *)
(* ob_size), the payload behind the header ("data", named after the object *)
(* whose contents it holds), the attached-dict pointer, and the str state  *)
(* (interned, hash).                                                       *)
(***************************************************************************)
EXTENDS Integers, Sequences, FiniteSets, TLC

\* ------------------------------------------------------------------ bounds
MaxDepth == 2       \* deepest nesting of capability scopes explored
MaxRefCnt == 5      \* reference counts explored are 0..MaxRefCnt

\* --------------------------------------------------------------- constants
PTR_SIZE == 8
ALIGNMENT == 16
SIZEOF_PyObject == 16
SIZEOF_PyVarObject == 24
SIZEOF_PyASCIIObject == 40
SIZEOF_c_uint32 == 4
SIZEOF_Py_ssize_t == 8

Objs == {"o1", "o2"}
ViewIds == {"v1", "v2", "v3"}

NULL == "NULL"
None == "None"
Free == "Free"
DroppedReference == "DroppedReference"

\* Exceptions an operation can end with ("ok": it returned).
UnsafeError == "UnsafeError"
MovedError == "MovedError"
DroppedReferenceError == "DroppedReferenceError"
AttributeError == "AttributeError"
TypeError == "TypeError"
ValueError == "ValueError"

\* ------------------------------------------------------------ host types
\* The types of the objects used by the test-suite: int, tuple, str, a
\* subclass of int and of tuple (instance dict behind the items, negative
\* tp_dictoffset), and a plain class (managed dict, tp_dictoffset -1).
Types == {"int", "tuple", "str", "NumInt", "TupSub", "Obj"}

TypeInfo ==
  [ int    |-> [HAVE_GC |-> FALSE, tp_dictoffset |-> 0,  MANAGED_DICT |-> FALSE,
                tp_basicsize |-> 24, weakrefs |-> FALSE],
    tuple  |-> [HAVE_GC |-> TRUE,  tp_dictoffset |-> 0,  MANAGED_DICT |-> FALSE,
                tp_basicsize |-> 24, weakrefs |-> FALSE],
    str    |-> [HAVE_GC |-> FALSE, tp_dictoffset |-> 0,  MANAGED_DICT |-> FALSE,
                tp_basicsize |-> 40, weakrefs |-> FALSE],
    NumInt |-> [HAVE_GC |-> TRUE,  tp_dictoffset |-> -8, MANAGED_DICT |-> FALSE,
                tp_basicsize |-> 32, weakrefs |-> FALSE],
    TupSub |-> [HAVE_GC |-> TRUE,  tp_dictoffset |-> -8, MANAGED_DICT |-> FALSE,
                tp_basicsize |-> 32, weakrefs |-> FALSE],
    Obj    |-> [HAVE_GC |-> TRUE,  tp_dictoffset |-> -1, MANAGED_DICT |-> TRUE,
                tp_basicsize |-> 16, weakrefs |-> TRUE] ]

\* factory.view: the struct a view overlays is chosen from the object's type
\* when the view is created (subclasses fall back to the base's view).
VIEW_TYPES ==
  [ int |-> "PyLongObject", NumInt |-> "PyLongObject",
    tuple |-> "PyTupleObject", TupSub |-> "PyTupleObject",
    str |-> "PyASCIIObject", Obj |-> "PyObject" ]

\* VarView subclasses (IntView, TupleView) expose `size`.
IsVarView(st) == st \in {"PyLongObject", "PyTupleObject"}

Abs(n) == IF n < 0 THEN -n ELSE n
Max(a, b) == IF a > b THEN a ELSE b

\* api.align_size: (size + alignment - 1) & ~(alignment - 1)
align_size(size, alignment) ==
  LET x == size + alignment - 1 IN x - (x % alignment)

\* PyObject.mem_size and its overrides, by struct type.
struct_mem_size(st, rec) ==
  CASE st = "PyLongObject"  -> SIZEOF_PyVarObject + SIZEOF_c_uint32 * Max(1, Abs(rec.ob_size))
    [] st = "PyTupleObject" -> SIZEOF_PyVarObject + SIZEOF_Py_ssize_t * rec.ob_size
    [] st = "PyASCIIObject" -> SIZEOF_PyASCIIObject + rec.ob_size + 1
    [] OTHER                -> SIZEOF_PyObject

\* ------------------------------------------------------------------ state
VARIABLES
  mem,             \* Objs -> the record at the object's address
  alive,           \* Objs -> the address still holds a live object
  envRef,          \* Objs -> the caller's own variable still names the object
  views,           \* ViewIds -> the View instance in that slot (or Free)
  _global_unsafe,  \* UnsafeContext._global_unsafe
  scopes,          \* the with-blocks currently open, innermost last
  res,             \* the outcome of the last operation
  tp_dict,         \* PatchTypes -> the type's own __dict__ (name -> value)
  _cache,          \* type_orig._cache: type -> name -> original
  _impls,          \* type_orig._impls: type -> names set through TypeView
  immutable,       \* PatchTypes -> tp_flags has IMMUTABLETYPE
  mut_scopes,      \* the as_mutable() with-blocks currently open, innermost last
  tp_as,           \* SlotTypes -> sub-structure field -> address (NULL_PTR if null)
  method_heap,     \* the PyMethods structures, by address
  PY_METHOD_STRUCTS, \* view_type.PY_METHOD_STRUCTS: type -> structures kept alive
  tp_fields,       \* FieldTypes -> the raw fields of the type record
  thr_depth,       \* Threads -> the scopes of its own view the thread has open
  thr_pc,          \* Threads -> where the thread is in a gated setter
  finalizers,      \* the weakref.finalize objects of impl(detach=True) not yet run
  _impl_types,     \* function -> func._impl_types, the types it has a finalizer for
  pylong,          \* the PyLongObject under the IntView: ob_size and digit memory
  seq_obj,         \* the tuple or str under the TupleView / StrView
  seq_view         \* that view: its cached mem_allocated and its local flag

typeVars == <<tp_dict, _cache, _impls, immutable, mut_scopes>>

memVars == <<mem, alive, envRef, views, _global_unsafe, scopes>>

slotVars == <<tp_as, method_heap, PY_METHOD_STRUCTS>>

\* The variables of the components that are neither views nor patched types.
thrVars == <<thr_depth, thr_pc>>

implVars == <<finalizers, _impl_types>>

seqVars == <<seq_obj, seq_view>>

extVars == <<slotVars, tp_fields, thrVars, implVars, pylong, seqVars>>

\* What the operations of one component leave alone besides the views.
notSlotVars == <<memVars, typeVars, tp_fields, thrVars, implVars, pylong, seqVars>>
notFieldVars == <<typeVars, slotVars, thrVars, implVars, pylong, seqVars>>
notThrVars == <<typeVars, slotVars, tp_fields, implVars, pylong, seqVars>>
notImplVars == <<memVars, slotVars, tp_fields, thrVars, pylong, seqVars>>
notLongVars == <<memVars, typeVars, slotVars, tp_fields, thrVars, implVars, seqVars>>
notSeqVars == <<memVars, typeVars, slotVars, tp_fields, thrVars, implVars, pylong>>

vars == <<mem, alive, envRef, views, _global_unsafe, scopes, res,
          tp_dict, _cache, _impls, immutable, mut_scopes,
          tp_as, method_heap, PY_METHOD_STRUCTS, tp_fields,
          thr_depth, thr_pc, finalizers, _impl_types, pylong,
          seq_obj, seq_view>>


\* ------------------------------------------- patched types (type_orig.py)
\* Two unrelated classes: A defines x and a Python-level __new__, B defines
\* neither; both inherit from object only.
PatchTypes == {"A", "B"}
PatchNames == {"x", "__new__"}

\* A name with no entry in a type's __dict__ / the AttributeError of getattr.
Absent == "<absent>"

\* Functions set through a TypeView.
PatchVals == {"f", "g"}

\* restore() is called with at most MaxNames names.
MaxNames == 2
RestoreArgs == UNION {[1..k -> PatchNames] : k \in 1..MaxNames}

\* The class bodies of A and B.
ClassDict ==
  [t \in PatchTypes |->
     [n \in PatchNames |->
        IF t = "A" THEN (IF n = "x" THEN "A.x" ELSE "A.__new__") ELSE Absent]]

\* object.__dict__ restricted to the names: only __new__ is found there.
ObjectDict == [n \in PatchNames |-> IF n = "__new__" THEN "object.__new__" ELSE Absent]

\* isinstance(method, BuiltinFunctionType)
IsBuiltin(method) == method = "object.__new__"

\* getattr(type_, name) along the MRO (type_, object); Absent stands for
\* AttributeError.
getattr(td, t, n) == IF td[t][n] # Absent THEN td[t][n] ELSE ObjectDict[n]

\* The values a cache slot holds.
NotCached == [kind |-> "no key", type |-> "-", _orig_slot_fn |-> Absent]
MISSING == [kind |-> "MISSING", type |-> "-", _orig_slot_fn |-> Absent]
Attr(value) == [kind |-> "attr", type |-> "-", _orig_slot_fn |-> value]
TypeNewWrapper(wrap_type, fn) ==
  [kind |-> "TypeNewWrapper", type |-> wrap_type, _orig_slot_fn |-> fn]

\* The entry made when the module is loaded: add_cache(object, "__new__", object.__new__).
ObjectNewCached == TypeNewWrapper("object", "object.__new__")

\* The entry add_cache makes of `method` (an Attr or MISSING).
CacheEntry(td, t, n, method) ==
  IF n = "__new__"
    THEN IF method.kind = "attr" /\ IsBuiltin(method._orig_slot_fn)
           THEN TypeNewWrapper(t, getattr(td, t, "__new__"))
           ELSE ObjectNewCached
    ELSE method

\* add_cache(type_, name, method, overwrite=False): dict.setdefault.
add_cache(c, td, t, n, method) ==
  IF c[t][n] = NotCached
    THEN [c EXCEPT ![t][n] = CacheEntry(td, t, n, method)]
    ELSE c

\* try_cache_attr(type_, name) with flag_missing=True.
try_cache_attr(c, td, t, n) ==
  add_cache(c, td, t, n,
            IF getattr(td, t, n) = Absent THEN MISSING ELSE Attr(getattr(td, t, n)))

in_cache(c, t, n) == c[t][n] # NotCached

\* _impls has no key for a type until add_impls makes one.
NoRecord == {"<no key>"}

in_impls(im, t, n) == im[t] # NoRecord /\ n \in im[t]

add_impls(im, t, n) ==
  [im EXCEPT ![t] = IF @ = NoRecord THEN {n} ELSE @ \cup {n}]

\* remove_impls emptying the type's whole record.
remove_impls_All(im, t, n) == [im EXCEPT ![t] = {}]

remove_impls(im, t, n) == [im EXCEPT ![t] = @ \ {n}]

normalize_slot_attr(attr) == attr._orig_slot_fn

\* slots_map.get_slot: of the names only __new__ is a slot (tp_new, a field
\* of the type itself, in no PyMethods sub-structure).
get_slot(n) == IF n = "__new__" THEN "tp_new" ELSE None

\* No type has been patched and nothing was read through orig().
TypesUntouched ==
  /\ tp_dict = ClassDict
  /\ _cache = [t \in PatchTypes |-> [n \in PatchNames |-> NotCached]]
  /\ _impls = [t \in PatchTypes |-> NoRecord]
  /\ immutable = [t \in PatchTypes |-> FALSE]
  /\ mut_scopes = <<>>

\* ------------------------------------- protocol sub-structures (PyMethods)
\* int and its subclasses: bool, a static type like int, and NumInt, a class
\* defined in Python.
SlotTypes == {"int", "bool", "NumInt"}

\* type.__subclasses__(t), in order of creation.
Subclasses(t) == IF t = "int" THEN <<"bool", "NumInt">> ELSE <<>>

\* The sub-structure pointers of a type record, in the order alloc_slot
\* names them, and the structure each one points to.
SlotFields == <<"tp_as_async", "tp_as_number", "tp_as_mapping", "tp_as_sequence">>
SlotFieldSet == {SlotFields[k] : k \in DOMAIN SlotFields}

ptr_type(field) ==
  CASE field = "tp_as_async"    -> "PyAsyncMethods"
    [] field = "tp_as_number"   -> "PyNumberMethods"
    [] field = "tp_as_mapping"  -> "PyMappingMethods"
    [] field = "tp_as_sequence" -> "PySequenceMethods"

\* A null sub-structure pointer; structures have the addresses 1, 2, ...
NULL_PTR == 0

\* A structure as the interpreter made it (its functions filled in) and as
\* slot.ptr_type() makes it (all fields zero).
MethodStruct(kind, zeroed) == [kind |-> kind, zeroed |-> zeroed]

\* The structures that exist before any allocation: the number methods of
\* int and bool, and the four structures inside NumInt's heap type.
InitialHeap ==
  <<MethodStruct("PyNumberMethods", FALSE), MethodStruct("PyNumberMethods", FALSE),
    MethodStruct("PyAsyncMethods", FALSE), MethodStruct("PyNumberMethods", FALSE),
    MethodStruct("PyMappingMethods", FALSE), MethodStruct("PySequenceMethods", FALSE)>>

InitialSlots ==
  [t \in SlotTypes |->
     [f \in SlotFieldSet |->
        CASE t = "int"  -> IF f = "tp_as_number" THEN 1 ELSE NULL_PTR
          [] t = "bool" -> IF f = "tp_as_number" THEN 2 ELSE NULL_PTR
          [] OTHER      -> CHOOSE k \in 3..6 : InitialHeap[k].kind = ptr_type(f)]]

SlotsUntouched ==
  /\ tp_as = InitialSlots
  /\ method_heap = InitialHeap
  /\ PY_METHOD_STRUCTS = [t \in SlotTypes |-> <<>>]

\* ------------------------------------------ raw fields of a type record
\* The types whose records are written through a TypeView, and the type each
\* view slot is a TypeView of when the slots are used for TypeViews.
FieldTypes == {"set", "Foo"}
ViewedType == [v \in ViewIds |-> IF v = "v2" THEN "Foo" ELSE "set"]

\* tp_name and tp_flags are properties of TypeView (they are in the class's
\* __dict__); tp_basicsize and tp_doc exist only on PyTypeObject.
FieldKeys == {"tp_name", "tp_flags", "tp_basicsize", "tp_doc"}
InClassDict(key) == key \in {"tp_name", "tp_flags"}

\* Values are Python objects of a kind: str, bytes or int.
PyVal(kind, v) == [kind |-> kind, v |-> v]

\* The kind of value the ctypes field accepts.
FieldKind(key) == IF key \in {"tp_name", "tp_doc"} THEN "bytes" ELSE "int"

\* The values a field is assigned: a str and a bytes for tp_name, a value of
\* the field's kind for the others.
FieldVals(key) ==
  IF key = "tp_name" THEN {PyVal("str", "abc"), PyVal("bytes", "abc")}
  ELSE {PyVal(FieldKind(key), "new")}

FieldsUntouched ==
  tp_fields = [t \in FieldTypes |-> [key \in FieldKeys |-> PyVal(FieldKind(key), t)]]

\* ------------------------------------------------------------- threads
\* Two threads, each with a view of its own.
Threads == {"t1", "t2"}
OwnView == [t \in Threads |-> IF t = "t1" THEN "v1" ELSE "v2"]

ThreadsIdle ==
  /\ thr_depth = [t \in Threads |-> 0]
  /\ thr_pc = [t \in Threads |-> "idle"]

\* ------------------------------------------------------- impl(detach=True)
\* The functions given to impl: a function has a value and a __name__.
ImplFuncs == {[value |-> "f", __name__ |-> n] : n \in PatchNames}

\* The types impl is called with.
ImplTargets == {<<"A">>, <<"B">>, <<"A", "B">>}

\* At most this many finalizers are pending at a time.
MaxFinalizers == 2

NothingImplemented ==
  /\ finalizers = {}
  /\ _impl_types = [func \in ImplFuncs |-> <<>>]

\* ------------------------------------------------- int objects (py_long.py)
\* A digit of an int holds 30 bits.
PyLong_SHIFT == 30
PyLong_BASE == 2 ^ PyLong_SHIFT

\* The digits of a natural number, least significant first (none for 0).
RECURSIVE Digits(_)
Digits(m) == IF m = 0 THEN <<>> ELSE <<m % PyLong_BASE>> \o Digits(m \div PyLong_BASE)

\* The ints the views are made of and the values assigned to them.
IntVals ==
  {0, 1, -1, 256, 900, 1000, -9000, PyLong_BASE - 1, PyLong_BASE, -PyLong_BASE,
   PyLong_BASE + 900, -PyLong_BASE - 900}

\* The objects given to the value setter.
PyInt(n) == [type |-> "int", n |-> n]
SetterArgs ==
  {PyInt(n) : n \in IntVals} \cup {[type |-> "bool", n |-> 1], [type |-> "str", n |-> 0]}

\* PyLongObject.from_object(n): the sign of ob_size is the sign of the int and
\* its magnitude the number of digits; the int 0 has ob_size 0 and is
\* allocated with room for one digit.
from_object(n) ==
  [ob_size |-> (IF n < 0 THEN -1 ELSE 1) * Len(Digits(Abs(n))),
   digits  |-> IF n = 0 THEN <<0>> ELSE Digits(Abs(n))]

\* PyLongObject.ob_digit: an array of max(abs(ob_size), 1) digits over the
\* digit memory.
ob_digit(obj) == SubSeq(obj.digits, 1, Max(Abs(obj.ob_size), 1))

\* sum(digit * 1 << (30 * i) for i, digit in enumerate(ob_digit))
RECURSIVE SumDigits(_, _)
SumDigits(ds, i) ==
  IF ds = <<>> THEN 0
  ELSE Head(ds) * (2 ^ (PyLong_SHIFT * i)) + SumDigits(Tail(ds), i + 1)

\* PyLongObject.value
PyLong_value(obj) ==
  IF obj.ob_size = 0 THEN 0
  ELSE SumDigits(ob_digit(obj), 0) * (IF obj.ob_size < 0 THEN -1 ELSE 1)

\* The int of the test of the setter, before any view is made of another.
LongUntouched == pylong = from_object(900)

\* ------------------------------------- tuples and strs edited in place
\* Lengths explored are 0..MaxSeqLen.
MaxSeqLen == 8

SIZEOF_PyCompactUnicodeObject == 56

\* The characters of the strs, as code points: "a", "e" with an acute accent
\* (latin-1, not ASCII) and the euro sign (two bytes wide).
SeqChars == {97, 233, 8364}

\* Kind: the width in bytes of the widest character (PyUnicode_1BYTE for "").
CharKind(c) == IF c < 256 THEN 1 ELSE IF c < 65536 THEN 2 ELSE 4
StrKind(chars) ==
  IF \E k \in DOMAIN chars : CharKind(chars[k]) = 4 THEN 4
  ELSE IF \E k \in DOMAIN chars : CharKind(chars[k]) = 2 THEN 2 ELSE 1
IsAscii(chars) == \A k \in DOMAIN chars : chars[k] < 128

\* A tuple of ob_size items, and a str of the given characters.
PyTuple(n) == [ob_type |-> "tuple", ob_size |-> n, chars |-> <<>>, interned |-> 0]
PyStr(chars, interned) ==
  [ob_type |-> "str", ob_size |-> 0, chars |-> chars, interned |-> interned]

\* PyASCIIObject.mem_size of a compact str, which is str.__sizeof__.
str_mem_size(chars) ==
  IF IsAscii(chars) THEN SIZEOF_PyASCIIObject + Len(chars) + 1
  ELSE SIZEOF_PyCompactUnicodeObject + (Len(chars) + 1) * StrKind(chars)

\* View.mem_size of the TupleView / StrView of the object.
seq_mem_size(obj) ==
  IF obj.ob_type = "tuple" THEN struct_mem_size("PyTupleObject", obj)
  ELSE str_mem_size(obj.chars)

\* View.__init__ of a TupleView / StrView: mem_allocated is cached.
SeqViewOf(obj) ==
  [mem_allocated |-> align_size(seq_mem_size(obj), ALIGNMENT), _local_unsafe |-> FALSE]

\* The objects the views are made of.
SeqObjects ==
  {PyTuple(3), PyTuple(4), PyTuple(0),
   PyStr(<<97, 97, 97>>, 1), PyStr(<<233, 97>>, 0), PyStr(<<>>, 1)}

\* The tuple (1, 2, 0) of the test of the tuple operations, freshly viewed.
SeqUntouched ==
  /\ seq_obj = PyTuple(3)
  /\ seq_view = SeqViewOf(PyTuple(3))

\* Nothing outside views and patched types has been used.
ExtUntouched ==
  /\ SlotsUntouched /\ FieldsUntouched /\ ThreadsIdle /\ NothingImplemented
  /\ LongUntouched /\ SeqUntouched

\* --------------------------------------------------------- initial state
\* The objects a run starts with: (type, ob_size) of the objects the
\* test-suite moves around.
Presets ==
  { [ob_type |-> "int",    ob_size |-> 1],
    [ob_type |-> "int",    ob_size |-> 4],
    [ob_type |-> "tuple",  ob_size |-> 4],
    [ob_type |-> "str",    ob_size |-> 3],
    [ob_type |-> "NumInt", ob_size |-> 1],
    [ob_type |-> "TupSub", ob_size |-> 3],
    [ob_type |-> "Obj",    ob_size |-> 0] }

\* Values written through the gated setters.
RefVals == {1, MaxRefCnt}
SizeVals == {1, 4}
TypeVals == {"int", "tuple"}

\* hash(str contents); -1 is "no cached hash".
HashOf(d) == IF d = "o1" THEN 101 ELSE 102

NewRecord(o, p) ==
  [ ob_refcnt |-> 1, ob_type |-> p.ob_type, ob_size |-> p.ob_size,
    data |-> o, dict |-> NULL, dictrc |-> 0,
    interned |-> IF p.ob_type = "str" THEN 1 ELSE 0,
    hash |-> IF p.ob_type = "str" THEN HashOf(o) ELSE -1 ]

FreeView ==
  [ _pyobject |-> Free, _base |-> None, _base_weakref |-> None,
    _local_unsafe |-> FALSE, mem_allocated |-> 0, _struct_type |-> "PyObject" ]

NoRes == [op |-> "init", view |-> "v1", other |-> "v1", err |-> "ok", val |-> 0]

Init ==
  /\ \E f \in [Objs -> Presets] : mem = [o \in Objs |-> NewRecord(o, f[o])]
  /\ alive = [o \in Objs |-> TRUE]
  /\ envRef = [o \in Objs |-> TRUE]
  /\ views = [v \in ViewIds |-> FreeView]
  /\ _global_unsafe = FALSE
  /\ scopes = <<>>
  /\ res = NoRes
  /\ TypesUntouched
  /\ ExtUntouched

\* ---------------------------------------------------------------- helpers
Exists(v) == views[v]._pyobject # Free
Dropped(v) == views[v]._pyobject = DroppedReference
Live(v) == Exists(v) /\ ~Dropped(v)

\* UnsafeContext._unsafe
_unsafe(v) == _global_unsafe \/ views[v]._local_unsafe

\* View.mem_size (PyObject.mem_size of the view's struct over the record)
mem_size(v) == struct_mem_size(views[v]._struct_type, mem[views[v]._pyobject])

\* Py_DecRef: the object is deallocated when the count reaches zero.
DecRef(m, o) == [m EXCEPT ![o].ob_refcnt = IF @ > 0 THEN @ - 1 ELSE 0]
AliveAfter(m, o) == m[o].ob_refcnt > 0

\* What the caller observes of an operation: the view it was called on, the
\* other view passed to it (the view itself when there is none), the
\* exception raised ("ok" if none) and the value returned or written.
Result2(op, v, other, err, val) ==
  [op |-> op, view |-> v, other |-> other, err |-> err, val |-> val]

Result(op, v, err, val) == Result2(op, v, v, err, val)

\* ----------------------------------------------------- capability scopes
\* `with v.unsafe():` entry: ctx() up to its yield.
EnterLocal(v) ==
  /\ UNCHANGED <<typeVars, extVars>>
  /\ Exists(v)
  /\ Len(scopes) < MaxDepth
  /\ scopes' = Append(scopes, [kind |-> "local", view |-> v])
  /\ views' = [views EXCEPT ![v]._local_unsafe = TRUE]
  /\ res' = Result("enter_local", v, "ok", 0)
  /\ UNCHANGED <<mem, alive, envRef, _global_unsafe>>

\* The body of the innermost `with v.unsafe():` ends, normally or by an
\* exception: the finally clause of ctx() runs either way.
ExitLocal(exc) ==
  /\ UNCHANGED <<typeVars, extVars>>
  /\ Len(scopes) > 0
  /\ scopes[Len(scopes)].kind = "local"
  /\ LET v == scopes[Len(scopes)].view IN
       /\ views' = [views EXCEPT ![v]._local_unsafe = FALSE]
       /\ res' = Result("exit_local", v, IF exc THEN "raised" ELSE "ok", 0)
  /\ scopes' = SubSeq(scopes, 1, Len(scopes) - 1)
  /\ UNCHANGED <<mem, alive, envRef, _global_unsafe>>

\* `with unsafe():` entry: global_unsafe() up to its yield.
EnterGlobal ==
  /\ UNCHANGED <<typeVars, extVars>>
  /\ Len(scopes) < MaxDepth
  /\ scopes' = Append(scopes, [kind |-> "global", view |-> "v1"])
  /\ _global_unsafe' = TRUE
  /\ res' = Result("enter_global", "v1", "ok", 0)
  /\ UNCHANGED <<mem, alive, envRef, views>>

\* The body of the innermost `with unsafe():` ends.  global_unsafe() has no
\* try/finally: the statement after its yield runs only on a normal exit.
ExitGlobal(exc) ==
  /\ UNCHANGED <<typeVars, extVars>>
  /\ Len(scopes) > 0
  /\ scopes[Len(scopes)].kind = "global"
  /\ _global_unsafe' = IF exc THEN _global_unsafe ELSE FALSE
  /\ scopes' = SubSeq(scopes, 1, Len(scopes) - 1)
  /\ res' = Result("exit_global", "v1", IF exc THEN "raised" ELSE "ok", 0)
  /\ UNCHANGED <<mem, alive, envRef, views>>

\* ------------------------------------------------------------- the views
\* factory.view(obj, ref) / View.__init__
NewView(v, o, ref) ==
  /\ UNCHANGED <<typeVars, extVars>>
  /\ ~Exists(v)
  /\ alive[o]
  /\ ref => mem[o].ob_refcnt < MaxRefCnt
  /\ LET st == VIEW_TYPES[mem[o].ob_type] IN
       views' = [views EXCEPT ![v] =
         [ _pyobject |-> o,
           _base |-> IF ref THEN o ELSE None,
           _base_weakref |-> IF TypeInfo[mem[o].ob_type].weakrefs THEN o ELSE None,
           _local_unsafe |-> FALSE,
           mem_allocated |-> align_size(struct_mem_size(st, mem[o]), ALIGNMENT),
           _struct_type |-> st ]]
  /\ mem' = IF ref THEN [mem EXCEPT ![o].ob_refcnt = @ + 1] ELSE mem
  /\ res' = Result("view", v, "ok", 0)
  /\ UNCHANGED <<alive, envRef, _global_unsafe, scopes>>

\* The @unsafe setters: View.ref_count, View.type, VarView.size.
\* unsafe_call raises before the setter body runs; on a dropped view the
\* body assigns an attribute of the DroppedReference, which has no such slot.
GatedWrite(op, v, field, value) ==
  /\ UNCHANGED <<typeVars, extVars>>
  /\ Exists(v)
  /\ Live(v) => alive[views[v]._pyobject]
  /\ IF ~_unsafe(v)
       THEN /\ res' = Result(op, v, UnsafeError, 0)
            /\ mem' = mem
       ELSE IF Dropped(v)
         THEN /\ res' = Result(op, v, AttributeError, 0)
              /\ mem' = mem
         ELSE /\ res' = Result(op, v, "ok", value)
              /\ mem' = [mem EXCEPT ![views[v]._pyobject][field] = value]
  /\ UNCHANGED <<alive, envRef, views, _global_unsafe, scopes>>

SetRefCount(v, value) == GatedWrite("set_ref_count", v, "ob_refcnt", value)

SetType(v, value) == GatedWrite("set_type", v, "ob_type", value)

SetSize(v, value) ==
  /\ IsVarView(views[v]._struct_type)
  /\ GatedWrite("set_size", v, "ob_size", value)


\* ------------------------------------------------------ instance dicts
\* The dict object created for the instance at address o.
DictOf(o) == IF o = "o1" THEN "d1" ELSE "d2"

\* PyObject_GetAttr(obj, "__dict__") creates the dict on first access; the
\* field dictrc of the record at o is the reference count of DictOf(o).
Materialize(m, o) ==
  IF m[o].dict = NULL
    THEN [m EXCEPT ![o] = [@ EXCEPT !.dict = DictOf(o), !.dictrc = 1]]
    ELSE m

\* The reference count of the dict d (0 for NULL), and its change by n.
DictRc(m, d) == IF d = "d1" THEN m["o1"].dictrc
                ELSE IF d = "d2" THEN m["o2"].dictrc ELSE 0

DictRef(m, d, n) ==
  IF d = "d1" THEN [m EXCEPT !["o1"].dictrc = m["o1"].dictrc + n]
  ELSE IF d = "d2" THEN [m EXCEPT !["o2"].dictrc = m["o2"].dictrc + n]
  ELSE m

HasObSize(st) == st \in {"PyLongObject", "PyTupleObject"}

\* PyObject.instance_dict(): which convention locates the dict pointer.
\*   "none"    tp_dictoffset == 0, the call returns None
\*   "managed" tp_dictoffset == -1, the dict is materialized and a pointer
\*             object outside the instance is returned
\*   "slot"    a pointer to the slot inside the instance is returned
dict_kind(rec) ==
  LET offset == TypeInfo[rec.ob_type].tp_dictoffset IN
    IF offset = 0 THEN "none" ELSE IF offset = -1 THEN "managed" ELSE "slot"

\* PyObject.instance_dict(): address of the slot relative to the object.
slot_offset(st, rec) ==
  LET offset == TypeInfo[rec.ob_type].tp_dictoffset IN
    IF offset > 0 THEN offset
    ELSE IF ~HasObSize(st) THEN TypeInfo[rec.ob_type].tp_basicsize + offset
    ELSE align_size(struct_mem_size(st, rec), PTR_SIZE) + PTR_SIZE + offset

\* addressof() of the pointer object built for a managed dict, relative to
\* the instance: it is a separate allocation, anywhere in the heap.
ArbOffsets == {-4096, 48, 4096}

\* ----------------------------------------------------------- accessors
Fields == {"ref_count", "type", "mem_size", "mem_allocated", "instance_dict", "size"}

\* The property getters of View / VarView.  Every getter but mem_allocated
\* goes through self._pyobject; mem_allocated is a cached_property filled
\* in by View.__init__.
GetField(v, f) ==
  /\ UNCHANGED <<typeVars, extVars>>
  /\ Exists(v)
  /\ Live(v) => alive[views[v]._pyobject]
  /\ f = "size" => IsVarView(views[v]._struct_type)
  /\ IF f = "mem_allocated"
       THEN /\ res' = Result("get_mem_allocated", v, "ok", views[v].mem_allocated)
            /\ mem' = mem
       ELSE IF Dropped(v)
         THEN /\ res' = Result("get_" \o f, v, DroppedReferenceError, 0)
              /\ mem' = mem
         ELSE LET o == views[v]._pyobject
                  rec == mem[o] IN
           CASE f = "ref_count" ->
                  /\ res' = Result("get_ref_count", v, "ok", rec.ob_refcnt)
                  /\ mem' = mem
             [] f = "type" ->
                  /\ res' = Result("get_type", v, "ok", rec.ob_type)
                  /\ mem' = mem
             [] f = "mem_size" ->
                  /\ res' = Result("get_mem_size", v, "ok", mem_size(v))
                  /\ mem' = mem
             [] f = "size" ->
                  /\ res' = Result("get_size", v, "ok", rec.ob_size)
                  /\ mem' = mem
             [] f = "instance_dict" ->
                  IF dict_kind(rec) = "none"
                    THEN /\ res' = Result("get_instance_dict", v, TypeError, 0)
                         /\ mem' = mem
                    ELSE /\ mem' = IF dict_kind(rec) = "managed"
                                     THEN Materialize(mem, o) ELSE mem
                         /\ res' = Result("get_instance_dict", v, "ok", mem'[o].dict)
  /\ UNCHANGED <<alive, envRef, views, _global_unsafe, scopes>>

\* View.base reporting an expired weak reference as a missing one.
Base_ExpiredAsUnsupported(v, op) ==
  /\ UNCHANGED <<typeVars, extVars>>
  /\ Exists(v)
  /\ LET w == views[v] IN
       res' =
         IF w._base # None
           THEN IF w._base = DroppedReference
                  THEN Result(op, v, DroppedReferenceError, None)
                  ELSE Result(op, v, "ok", <<"strong", w._base>>)
         ELSE IF w._base_weakref # None /\ alive[w._base_weakref]
           THEN Result(op, v, "ok", <<"weak", w._base_weakref>>)
         ELSE IF ~_unsafe(v)
           THEN Result(op, v, UnsafeError, None)
           ELSE Result(op, v, "ok", <<"address", w._pyobject>>)
  /\ UNCHANGED <<mem, alive, envRef, views, _global_unsafe, scopes>>

\* View.base, and View.__invert__ which tries the strong reference itself
\* before delegating to base.
Base(v, op) ==
  /\ UNCHANGED <<typeVars, extVars>>
  /\ Exists(v)
  /\ LET w == views[v] IN
       res' =
         IF w._base # None
           THEN IF w._base = DroppedReference
                  THEN Result(op, v, DroppedReferenceError, None)
                  ELSE Result(op, v, "ok", <<"strong", w._base>>)
         ELSE IF w._base_weakref = None
           THEN IF ~_unsafe(v)
                  THEN Result(op, v, UnsafeError, None)
                  ELSE Result(op, v, "ok", <<"address", w._pyobject>>)
         ELSE IF alive[w._base_weakref]
           THEN Result(op, v, "ok", <<"weak", w._base_weakref>>)
         ELSE IF ~_unsafe(v)
           THEN Result(op, v, MovedError, None)
           ELSE Result(op, v, "ok", <<"address", w._pyobject>>)
  /\ UNCHANGED <<mem, alive, envRef, views, _global_unsafe, scopes>>

\* View.drop: the strong reference held in _base is released.
Drop(v) ==
  /\ UNCHANGED <<typeVars, extVars>>
  /\ Live(v)
  /\ LET o == views[v]._pyobject
         held == views[v]._base # None
         m == IF held THEN DecRef(mem, o) ELSE mem IN
       /\ mem' = m
       /\ alive' = [alive EXCEPT ![o] = @ /\ AliveAfter(m, o)]
  /\ views' = [views EXCEPT ![v]._pyobject = DroppedReference,
                            ![v]._base = DroppedReference,
                            ![v]._base_weakref = None]
  /\ res' = Result("drop", v, "ok", 0)
  /\ UNCHANGED <<envRef, _global_unsafe, scopes>>

\* The caller's `del obj`: its own reference goes away.
DelObj(o) ==
  /\ UNCHANGED <<typeVars, extVars>>
  /\ envRef[o]
  /\ alive[o]
  /\ envRef' = [envRef EXCEPT ![o] = FALSE]
  /\ mem' = DecRef(mem, o)
  /\ alive' = [alive EXCEPT ![o] = AliveAfter(mem', o)]
  /\ res' = Result("del", "v1", "ok", 0)
  /\ UNCHANGED <<views, _global_unsafe, scopes>>


\* ---------------------------------------------------------- move engine
\* PyObject.is_gc (types without a tp_is_gc slot)
is_gc(rec) == TypeInfo[rec.ob_type].HAVE_GC

is_managed(rec) == TypeInfo[rec.ob_type].MANAGED_DICT

\* The memory after PyObject.instance_dict() ran on the object at o.
AfterInstanceDict(m, o) ==
  IF dict_kind(m[o]) = "managed" THEN Materialize(m, o) ELSE m

\* addressof(instance_dict()) - address, as check_move and move compute it;
\* arb is where the pointer object of a managed dict happened to be allocated.
dict_offset(st, rec, arb) ==
  IF dict_kind(rec) = "managed" THEN arb ELSE slot_offset(st, rec)

\* check_move: dst_offset, 0 without a dict, -1 for a managed dict.
dst_offset_of(std, rec) ==
  IF dict_kind(rec) = "none" THEN 0
  ELSE IF is_managed(rec) THEN -1
  ELSE slot_offset(std, rec)

\* check_move: dst_allocated, the cached mem_allocated of the destination
\* view, stretched over the destination's own dict slot.
dst_allocated_of(std, rec, allocated) ==
  IF dict_kind(rec) # "none" /\ ~is_managed(rec) /\ slot_offset(std, rec) > 0
    THEN Max(slot_offset(std, rec) + PTR_SIZE, allocated)
    ELSE allocated

\* check_move testing only the negative offset of the source's dict.
dict_unsafe_NegativeOnly(sts, srec, arb, dst_offset, dst_allocated) ==
  /\ dict_kind(srec) # "none"
  /\ ~(is_managed(srec) /\ dst_offset = -1)
  /\ dict_offset(sts, srec, arb) < 0 /\ dict_offset(sts, srec, arb) # dst_offset

\* check_move: the instance dict of the source cannot be moved.
dict_unsafe(sts, srec, arb, dst_offset, dst_allocated) ==
  /\ dict_kind(srec) # "none"
  /\ ~(is_managed(srec) /\ dst_offset = -1)
  /\ \/ dict_offset(sts, srec, arb) < 0 /\ dict_offset(sts, srec, arb) # dst_offset
     \/ /\ dict_offset(sts, srec, arb) > 0
        /\ (dict_offset(sts, srec, arb) + PTR_SIZE) > dst_allocated

\* check_move without its final comparison of sizes.
check_src_NoSizeCheck(m, sts, os, arb, dst_offset, dst_allocated) ==
  IF dict_unsafe(sts, m[os], arb, dst_offset, dst_allocated)
    THEN [err |-> "instance dict", mem |-> m]
  ELSE [err |-> "ok", mem |-> m]

\* check_move from the source's instance_dict() on; m is the memory then.
check_src(m, sts, os, arb, dst_offset, dst_allocated) ==
  IF dict_unsafe(sts, m[os], arb, dst_offset, dst_allocated)
    THEN [err |-> "instance dict", mem |-> m]
  ELSE IF struct_mem_size(sts, m[os]) > dst_allocated
    THEN [err |-> "out of bounds", mem |-> m]
  ELSE [err |-> "ok", mem |-> m]

\* check_move from the destination's instance_dict() on; m is the memory then.
check_dst(m, d, s, arb) ==
  check_src(AfterInstanceDict(m, views[s]._pyobject),
            views[s]._struct_type, views[s]._pyobject, arb,
            dst_offset_of(views[d]._struct_type, m[views[d]._pyobject]),
            dst_allocated_of(views[d]._struct_type, m[views[d]._pyobject],
                             views[d].mem_allocated))

\* check_move without its first test, of the gc types.
check_move_NoGcCheck(m, d, s, arb) ==
  check_dst(AfterInstanceDict(m, views[d]._pyobject), d, s, arb)

\* _moves.check_move(dst, src), the views being d and s.  The result is the
\* message of the UnsafeError raised ("ok" if none) and the memory the call
\* leaves behind: instance_dict() materializes a managed dict.
check_move(m, d, s, arb) ==
  IF ~is_gc(m[views[s]._pyobject]) /\ is_gc(m[views[d]._pyobject])
    THEN [err |-> "gc type", mem |-> m]
    ELSE check_dst(AfterInstanceDict(m, views[d]._pyobject), d, s, arb)

\* move() without its loop over (src, dst): str state is left as it is.
Unintern_Keep(st, rec) == rec

\* move(): un-intern and invalidate the hash of a str record.
Unintern(st, rec) ==
  IF st = "PyASCIIObject" THEN [rec EXCEPT !.interned = 0, !.hash = -1] ELSE rec

\* PyObject_GetAttr(obj, "__dict__") under suppress(AttributeError).
GetAttrDict(rec, o) ==
  IF dict_kind(rec) # "none" /\ rec.dict = NULL
    THEN [rec EXCEPT !.dict = DictOf(o), !.dictrc = 1] ELSE rec

\* A memmove from offset 0: the reference count of the source is copied too.
Moved_WithRefCount(dstrec, srcrec, carry) ==
  [ ob_refcnt |-> srcrec.ob_refcnt,
    ob_type   |-> srcrec.ob_type,
    ob_size   |-> srcrec.ob_size,
    data      |-> srcrec.data,
    interned  |-> srcrec.interned,
    hash      |-> srcrec.hash,
    dict      |-> IF carry THEN srcrec.dict ELSE dstrec.dict,
    dictrc    |-> dstrec.dictrc ]

\* The memmove of move(): everything behind ob_refcnt of the source record
\* lands at the destination; with carry the dict pointer follows (slot copy
\* before the memmove, or SetAttr after it for a managed dict).
Moved(dstrec, srcrec, carry) ==
  [ ob_refcnt |-> dstrec.ob_refcnt,
    ob_type   |-> srcrec.ob_type,
    ob_size   |-> srcrec.ob_size,
    data      |-> srcrec.data,
    interned  |-> srcrec.interned,
    hash      |-> srcrec.hash,
    dict      |-> IF carry THEN srcrec.dict ELSE dstrec.dict,
    dictrc    |-> dstrec.dictrc ]

\* move(): both records are un-interned, then both dicts materialized.
PreparedSrc(m, os, sts) == [m EXCEPT ![os] = GetAttrDict(Unintern(sts, @), os)]

Prepared(m, od, std, os, sts) ==
  [PreparedSrc(m, os, sts) EXCEPT ![od] = GetAttrDict(Unintern(std, @), od)]

\* PyObject_SetAttr(dst, "__dict__", d) after the memmove: the dict d gains
\* a reference and the managed dict the destination had loses one.
SetAttrRefs(m, old, d) == DictRef(DictRef(m, d, 1), old, -1)

CopyOver(m, od, os) ==
  IF is_managed(m[os])
    THEN SetAttrRefs([m EXCEPT ![od] = Moved(m[od], m[os], TRUE)],
                     IF is_managed(m[od]) THEN m[od].dict ELSE NULL,
                     m[os].dict)
    ELSE [m EXCEPT ![od] = Moved(m[od], m[os], dict_kind(m[os]) # "none")]

\* _moves.move(dst, src) with inst_dict=True, offset=PTR_SIZE, both records
\* in object memory (src at os read through struct sts, dst at od through
\* std).  The source record is written too: un-interned and materialized.
move(m, od, std, os, sts) == CopyOver(Prepared(m, od, std, os, sts), od, os)

\* A swap whose second move copies nothing back from the buffer.
move_buf_Skipped(m, od, std, sr, sts) ==
  [m EXCEPT ![od] = Unintern(std, m[od])]

\* _moves.move(dst, src, inst_dict=False) with the source record sr held in
\* a buffer (View.swap).
move_buf(m, od, std, sr, sts) ==
  [m EXCEPT ![od] = Moved(Unintern(std, m[od]), Unintern(sts, sr), FALSE)]

FreeSlot == CHOOSE x \in ViewIds : ~Exists(x)

\* View.__init__ over the record now at address o, ref=True.
ViewOf(m, o) ==
  LET st == VIEW_TYPES[m[o].ob_type] IN
    [ _pyobject |-> o, _base |-> o,
      _base_weakref |-> IF TypeInfo[m[o].ob_type].weakrefs THEN o ELSE None,
      _local_unsafe |-> FALSE,
      mem_allocated |-> align_size(struct_mem_size(st, m[o]), ALIGNMENT),
      _struct_type |-> st ]

IncRef(m, o) == [m EXCEPT ![o].ob_refcnt = @ + 1]

DropView(w) == [w EXCEPT !._pyobject = DroppedReference,
                         !._base = DroppedReference,
                         !._base_weakref = None]


\* self.drop() inside move_from and swap: the held reference is released.
ReleaseHeld(m, v) ==
  IF views[v]._base # None THEN DecRef(m, views[v]._pyobject) ELSE m

\* move_from after the move: other._pyobject.IncRef(), Py.IncRef(obj),
\* factory.view(obj), self.drop(); m is the memory after the increments.
MoveFromFinish(d, s, m) ==
  /\ mem' = ReleaseHeld(m, d)
  /\ views' = [views EXCEPT ![s]._local_unsafe = FALSE,
                            ![d] = DropView(@),
                            ![FreeSlot] = ViewOf(m, views[d]._pyobject)]
  /\ res' = Result2("move_from", d, s, "ok", FreeSlot)

\* move_from once check_move has answered chk.
MoveFromChecked(d, s, chk) ==
  IF chk.err # "ok"
    THEN /\ res' = Result2("move_from", d, s, UnsafeError, chk.err)
         /\ mem' = chk.mem
         /\ UNCHANGED views
    ELSE MoveFromFinish(d, s,
           IncRef(IncRef(IncRef(
             \* with other.unsafe(): other.move_to(self)
             move(chk.mem, views[d]._pyobject, views[d]._struct_type,
                  views[s]._pyobject, views[s]._struct_type),
             views[s]._pyobject), views[d]._pyobject), views[d]._pyobject))

\* View.move_from(other), self being the view d and other the view s.
MoveFrom(d, s, arb) ==
  /\ UNCHANGED <<typeVars, extVars>>
  /\ Exists(d) /\ Exists(s) /\ d # s
  /\ \E x \in ViewIds : ~Exists(x)
  /\ Live(d) => alive[views[d]._pyobject] /\ mem[views[d]._pyobject].ob_refcnt + 2 <= MaxRefCnt
  /\ Live(s) => alive[views[s]._pyobject] /\ mem[views[s]._pyobject].ob_refcnt + 1 <= MaxRefCnt
  /\ UNCHANGED <<envRef, _global_unsafe, scopes, alive>>
  /\ IF ~_unsafe(d) /\ (Dropped(d) \/ Dropped(s))
       \* check_move reads through the DroppedReference
       THEN /\ res' = Result2("move_from", d, s, DroppedReferenceError, 0)
            /\ UNCHANGED <<mem, views>>
     ELSE IF Dropped(d)
       \* self._pyobject.address
       THEN /\ res' = Result2("move_from", d, s, DroppedReferenceError, 0)
            /\ UNCHANGED <<mem, views>>
     ELSE IF Dropped(s)
       \* move() un-interns the destination, then reads the dropped source;
       \* the finally clause of other.unsafe() runs
       THEN /\ res' = Result2("move_from", d, s, DroppedReferenceError, 0)
            /\ mem' = [mem EXCEPT ![views[d]._pyobject] = Unintern(views[d]._struct_type, @)]
            /\ views' = [views EXCEPT ![s]._local_unsafe = FALSE]
     ELSE MoveFromChecked(d, s, IF ~_unsafe(d) THEN check_move(mem, d, s, arb)
                                               ELSE [err |-> "ok", mem |-> mem])

\* A swap that does not restore the saved dict of other onto self.
SwapFinish_NoRestore(a, b, m, kind, other_dict) ==
  /\ mem' = ReleaseHeld(m, a)
  /\ views' = [views EXCEPT ![a] = DropView(@),
                            ![FreeSlot] = ViewOf(m, views[a]._pyobject)]
  /\ res' = Result2("swap", a, b, "ok", FreeSlot)

\* swap from the two moves on: m is the memory after instance_dict() of
\* other, buf the copy of other taken before it, other_dict the dict saved.
SwapFinish(a, b, m, kind, other_dict) ==
  /\ mem' = ReleaseHeld(
              IF kind = "managed"
                \* new_view._pyobject.SetAttr("__dict__", other_dict)
                THEN SetAttrRefs(
                       [m EXCEPT ![views[a]._pyobject].dict = other_dict],
                       IF is_managed(mem[views[a]._pyobject])
                         THEN m[views[a]._pyobject].dict ELSE NULL,
                       other_dict)
              ELSE IF kind = "slot"
                \* new_view._pyobject.instance_dict().contents = other_dict
                THEN [m EXCEPT ![views[a]._pyobject].dict = other_dict]
              ELSE m, a)
  /\ views' = [views EXCEPT ![a] = DropView(@),
                            ![FreeSlot] = ViewOf(m, views[a]._pyobject)]
  /\ res' = Result2("swap", a, b, "ok", FreeSlot)

\* The dict swap saves: other_dict, NULL standing for None.
OtherDict(m, o) == IF dict_kind(m[o]) # "none" THEN m[o].dict ELSE NULL

\* swap after the checks; m is the memory after other._pyobject.IncRef(),
\* and so the content of the buffer.
SwapSaved(a, b, m, m2) ==
  IF dict_kind(m2[views[b]._pyobject]) # "none" /\ m2[views[b]._pyobject].dict = NULL
    \* other_dict_ptr.contents of a NULL slot
    THEN /\ res' = Result2("swap", a, b, ValueError, 0)
         /\ mem' = m2
         /\ UNCHANGED views
  ELSE IF Dropped(a)
    \* move() un-interns other, then reads the dropped self
    THEN /\ res' = Result2("swap", a, b, DroppedReferenceError, 0)
         /\ mem' = [DictRef(m2, OtherDict(m2, views[b]._pyobject), 1)
                      EXCEPT ![views[b]._pyobject] = Unintern(views[b]._struct_type, @)]
         /\ UNCHANGED views
  ELSE SwapFinish(a, b,
         \* factory.view(self._pyobject.into_object())
         IncRef(
           \* move(src=buffer, dst=self, inst_dict=False)
           move_buf(
             \* other_dict.IncRef(); move(src=self, dst=other)
             move(DictRef(m2, OtherDict(m2, views[b]._pyobject), 1),
                  views[b]._pyobject, views[b]._struct_type,
                  views[a]._pyobject, views[a]._struct_type),
             views[a]._pyobject, views[a]._struct_type,
             m[views[b]._pyobject], views[b]._struct_type),
           views[a]._pyobject),
         dict_kind(m2[views[b]._pyobject]),
         OtherDict(m2, views[b]._pyobject))

\* swap once both check_move calls have answered chk.
SwapChecked(a, b, chk) ==
  IF chk.err # "ok"
    THEN /\ res' = Result2("swap", a, b, UnsafeError, chk.err)
         /\ mem' = chk.mem
         /\ UNCHANGED views
    ELSE SwapSaved(a, b, IncRef(chk.mem, views[b]._pyobject),
                   AfterInstanceDict(IncRef(chk.mem, views[b]._pyobject),
                                     views[b]._pyobject))

\* check_move(self, other); check_move(other, self)
check_both(chk1, a, b, arb2) ==
  IF chk1.err = "ok" THEN check_move(chk1.mem, b, a, arb2) ELSE chk1

\* View.swap(other), self being the view a and other the view b.
Swap(a, b, arb1, arb2) ==
  /\ UNCHANGED <<typeVars, extVars>>
  /\ Exists(a) /\ Exists(b) /\ a # b
  /\ \E x \in ViewIds : ~Exists(x)
  /\ Live(a) => alive[views[a]._pyobject] /\ mem[views[a]._pyobject].ob_refcnt + 1 <= MaxRefCnt
  /\ Live(b) => alive[views[b]._pyobject] /\ mem[views[b]._pyobject].ob_refcnt + 1 <= MaxRefCnt
  /\ UNCHANGED <<envRef, _global_unsafe, scopes, alive>>
  /\ IF Dropped(b) \/ (Dropped(a) /\ ~_unsafe(a))
       \* other._pyobject.ob_type, or check_move(self, other) reading self
       THEN /\ res' = Result2("swap", a, b, DroppedReferenceError, 0)
            /\ UNCHANGED <<mem, views>>
       ELSE SwapChecked(a, b,
              IF ~_unsafe(a) THEN check_both(check_move(mem, a, b, arb1), a, b, arb2)
                             ELSE [err |-> "ok", mem |-> mem])

\* A dropped view that no open scope names is garbage collected.
ForgetView(v) ==
  /\ UNCHANGED <<typeVars, extVars>>
  /\ Dropped(v)
  /\ \A i \in DOMAIN scopes : ~(scopes[i].kind = "local" /\ scopes[i].view = v)
  /\ views' = [views EXCEPT ![v] = FreeView]
  /\ res' = Result("forget", v, "ok", 0)
  /\ UNCHANGED <<mem, alive, envRef, _global_unsafe, scopes>>

\* The views the caller creates itself; the remaining slot takes the view
\* that move_from and swap return.
UserSlots == {"v1", "v2"}

NewViewAny == \E v \in UserSlots, o \in Objs, ref \in BOOLEAN : NewView(v, o, ref)

\* ------------------------------------------------ TypeView patching
\* The operations below work on a state [d, c, i, err]: the types' dicts, the
\* cache of originals, the record of set names, and the exception raised.
\* m is the immutability flag of each type.
TypeState(d, c, i, m, err) == [d |-> d, c |-> c, i |-> i, m |-> m, err |-> err]

\* TypeView.as_mutable around a body that ended with err: a mutable type is
\* left alone; an immutable one is made mutable, and made immutable again
\* by the line after the yield, which an exception in the body skips.
as_mutable(m, t, err) ==
  IF ~m[t] THEN m
  ELSE IF err = "ok" THEN [m EXCEPT ![t] = TRUE]
  ELSE [m EXCEPT ![t] = FALSE]

\* PyTypeObject.setattr_safe: a plain name and tp_new both end in SetAttr.
setattr_safe(d, t, n, value) == [d EXCEPT ![t][n] = value]

\* TypeView.__setitem__
SetItemStep(st, t, n, value) ==
  TypeState(setattr_safe(st.d, t, n, value),
            try_cache_attr(st.c, st.d, t, n),
            add_impls(st.i, t, n),
            as_mutable(st.m, t, "ok"),
            "ok")

\* PyTypeObject.delattr_safe: DelAttr raises AttributeError for a name that
\* is not in the type's own dict; the tp_new slot is nulled and the key
\* removed from the dict if it is there.
delattr_safe_err(d, t, n) ==
  IF get_slot(n) = None /\ d[t][n] = Absent THEN "AttributeError" ELSE "ok"

delattr_safe(d, t, n) == [d EXCEPT ![t][n] = Absent]

\* TypeView.__delitem__
DelItemStep(st, t, n) ==
  TypeState(delattr_safe(st.d, t, n),
            try_cache_attr(st.c, st.d, t, n),
            add_impls(st.i, t, n),
            as_mutable(st.m, t, delattr_safe_err(st.d, t, n)),
            delattr_safe_err(st.d, t, n))

\* `del self[name]; remove_impls(type_, name)`
DelAndForget(st, t, n) ==
  IF DelItemStep(st, t, n).err = "ok"
    THEN [DelItemStep(st, t, n) EXCEPT !.i = remove_impls(@, t, n)]
    ELSE DelItemStep(st, t, n)

\* One round of the loop of TypeView.restore.
RestoreName(st, t, n) ==
  IF in_impls(st.i, t, n) /\ in_cache(st.c, t, n)
    THEN IF st.c[t][n] = MISSING
           THEN DelAndForget(st, t, n)
           ELSE SetItemStep(st, t, n, normalize_slot_attr(st.c[t][n]))
    ELSE IF in_impls(st.i, t, n)
           THEN DelAndForget(st, t, n)
           ELSE [st EXCEPT !.err = "AttributeError"]

\* The loop of TypeView.restore over names, left at the first exception.
RECURSIVE RestoreLoop(_, _, _)
RestoreLoop(st, t, names) ==
  IF names = <<>> \/ st.err # "ok"
    THEN st
    ELSE RestoreLoop(RestoreName(st, t, Head(names)), t, Tail(names))

\* The outcome of an operation on a type.
\* `before` is what the type resolved for the name when the operation was
\* called and `patched` whether the name was then recorded as set.
TypeRes(op, t, names, err, before, val) ==
  [op |-> op, type |-> t, names |-> names, err |-> err,
   before |-> before, val |-> val,
   patched |-> Len(names) = 1 /\ in_impls(_impls, t, names[1])]

Commit(st) ==
  /\ tp_dict' = st.d
  /\ _cache' = st.c
  /\ _impls' = st.i
  /\ immutable' = st.m
  /\ UNCHANGED mut_scopes

Now == TypeState(tp_dict, _cache, _impls, immutable, "ok")

\* view(t)[n] = value
SetItem(t, n, value) ==
  /\ UNCHANGED <<memVars, extVars>>
  /\ Commit(SetItemStep(Now, t, n, value))
  /\ res' = TypeRes("setitem", t, <<n>>, "ok", getattr(tp_dict, t, n), Attr(value))

\* del view(t)[n]
DelItem(t, n) ==
  /\ UNCHANGED <<memVars, extVars>>
  /\ Commit(DelItemStep(Now, t, n))
  /\ res' = TypeRes("delitem", t, <<n>>, DelItemStep(Now, t, n).err,
                    getattr(tp_dict, t, n), NotCached)

\* view(t).restore(*names), names given.
Restore(t, names) ==
  /\ UNCHANGED <<memVars, extVars>>
  /\ Commit(RestoreLoop(Now, t, names))
  /\ res' = TypeRes("restore", t, names, RestoreLoop(Now, t, names).err,
                    Absent, NotCached)

\* The orders in which a set of names is iterated.
Orders(S) ==
  {q \in [1..Cardinality(S) -> S] : \A j, k \in DOMAIN q : j # k => q[j] # q[k]}

\* view(t).restore(): the names of get_impls(t), KeyError without a record.
RestoreAll(t) ==
  /\ UNCHANGED <<memVars, extVars>>
  /\ IF _impls[t] = NoRecord
       THEN /\ UNCHANGED typeVars
            /\ res' = TypeRes("restore_all", t, <<>>, "KeyError", Absent, NotCached)
       ELSE \E names \in Orders(_impls[t]) :
              /\ Commit(RestoreLoop(Now, t, names))
              /\ res' = TypeRes("restore_all", t, names,
                                RestoreLoop(Now, t, names).err, Absent, NotCached)

\* orig(t).n
OrigRead(t, n) ==
  /\ UNCHANGED <<memVars, extVars>>
  /\ UNCHANGED <<tp_dict, _impls, immutable, mut_scopes>>
  /\ IF in_cache(_cache, t, n)
       THEN /\ UNCHANGED _cache
            /\ res' = TypeRes("orig", t, <<n>>, "ok", Absent, _cache[t][n])
       ELSE IF getattr(tp_dict, t, n) = Absent
              THEN /\ UNCHANGED _cache
                   /\ res' = TypeRes("orig", t, <<n>>, "AttributeError", Absent, NotCached)
              ELSE /\ _cache' = add_cache(_cache, tp_dict, t, n, Attr(getattr(tp_dict, t, n)))
                   /\ res' = TypeRes("orig", t, <<n>>, "ok", Absent,
                                     CacheEntry(tp_dict, t, n, Attr(getattr(tp_dict, t, n))))

\* ------------------------------------------------------ impl and finalizers
\* The loop of impl over its targets: t_view[name] = func.
RECURSIVE ImplLoop(_, _, _)
ImplLoop(st, targets, func) ==
  IF targets = <<>> THEN st
  ELSE ImplLoop(SetItemStep(st, Head(targets), func.__name__, func.value),
                Tail(targets), func)

\* _attach_finalizer: the types of the call the function has no finalizer for.
NewTypes(registered, targets) ==
  SelectSeq(targets, LAMBDA t : \A k \in DOMAIN registered : registered[k] # t)

\* A weakref.finalize(func, _restore_impl, *types, name=name). `before` is
\* what each type resolved for the name when impl was called, and `first`
\* whether that call was the first operation on the name for all its types;
\* both are kept for the properties only.
Finalizer(func, types, targets) ==
  [func |-> func, types |-> types,
   before |-> [t \in PatchTypes |-> getattr(tp_dict, t, func.__name__)],
   first |-> \A k \in DOMAIN targets : ~in_cache(_cache, targets[k], func.__name__)]

\* @impl(*targets, detach=detach) applied to func.
Impl(targets, func, detach) ==
  /\ UNCHANGED notImplVars
  /\ detach => Cardinality(finalizers) < MaxFinalizers
  /\ Commit(ImplLoop(Now, targets, func))
  /\ IF detach
       THEN /\ _impl_types' = [_impl_types EXCEPT ![func] =
                                 @ \o NewTypes(@, targets)]
            /\ finalizers' = finalizers \cup
                 {Finalizer(func, NewTypes(_impl_types[func], targets), targets)}
       ELSE UNCHANGED implVars
  /\ res' = [op |-> "impl", types |-> targets, names |-> <<func.__name__>>,
             err |-> "ok", detach |-> detach]

\* _restore_impl for one type: the original, if there is one in the cache,
\* is set; then the name is deleted, whether or not an original was set.
RestoreImplStep(st, t, n) ==
  DelItemStep(IF in_cache(st.c, t, n) /\ st.c[t][n] # MISSING
                THEN SetItemStep(st, t, n, normalize_slot_attr(st.c[t][n]))
                ELSE st,
              t, n)

\* The loop of _restore_impl over the types, left at the first exception.
RECURSIVE _restore_impl(_, _, _)
_restore_impl(st, types, n) ==
  IF types = <<>> \/ st.err # "ok" THEN st
  ELSE _restore_impl(RestoreImplStep(st, Head(types), n), Tail(types), n)

\* A finalizer runs (func._impl_finalize() is called, or func is collected).
Finalize(fz) ==
  /\ UNCHANGED notImplVars
  /\ fz \in finalizers
  /\ Commit(_restore_impl(Now, fz.types, fz.func.__name__))
  /\ finalizers' = finalizers \ {fz}
  /\ UNCHANGED _impl_types
  /\ res' = [op |-> "finalize", types |-> fz.types, names |-> <<fz.func.__name__>>,
             err |-> _restore_impl(Now, fz.types, fz.func.__name__).err,
             before |-> fz.before, first |-> fz.first]

\* ------------------------------------------------------- IntView.value
\* v = view(n): the view is made of another int.
NewIntView(n) ==
  /\ UNCHANGED notLongVars
  /\ pylong' = from_object(n)
  /\ res' = [op |-> "new_int", obj |-> PyInt(n), err |-> "ok"]

\* self.digits[:new_size] = new_val.ob_digit: assignment to a slice of a
\* ctypes array takes a sequence of the length of the slice only.
SliceLen(obj, new_size) == IF new_size < Len(ob_digit(obj)) THEN new_size ELSE Len(ob_digit(obj))

\* The outcome of the setter of IntView.value for the argument `arg`.
SetValueError(obj, arg) ==
  IF arg.type \notin {"int", "bool"} THEN "TypeError"
  ELSE IF Abs(from_object(arg.n).ob_size) > Max(Abs(obj.ob_size), 1) THEN "ValueError"
  ELSE IF Len(ob_digit(from_object(arg.n))) # SliceLen(obj, Abs(from_object(arg.n).ob_size))
         THEN "ValueError"
  ELSE "ok"

\* The digits of the new value are copied over the first digits of the
\* object, and ob_size is set to new_size = abs(new_val.ob_size).
SetValueStore(obj, arg) ==
  [ob_size |-> Abs(from_object(arg.n).ob_size),
   digits  |-> [k \in DOMAIN obj.digits |->
                  IF k <= Abs(from_object(arg.n).ob_size)
                    THEN from_object(arg.n).digits[k] ELSE obj.digits[k]]]

\* v.value = arg
SetValue(arg) ==
  /\ UNCHANGED notLongVars
  /\ pylong' = IF SetValueError(pylong, arg) = "ok"
                 THEN SetValueStore(pylong, arg) ELSE pylong
  /\ res' = [op |-> "set_value", obj |-> arg, err |-> SetValueError(pylong, arg)]

\* ------------------------------------------- TupleView and StrView edits
IndexError == "IndexError"

\* v = view(obj) of a tuple or a str.
NewSeqView(obj) ==
  /\ UNCHANGED notSeqVars
  /\ seq_obj' = obj
  /\ seq_view' = SeqViewOf(obj)
  /\ res' = [op |-> "new_seq", err |-> "ok", val |-> 0]

\* self._unsafe of the view.
SeqUnsafe(view) == _global_unsafe \/ view._local_unsafe

\* What an edit leaves: the object and the exception it ended with.
SeqState(obj, err) == [obj |-> obj, err |-> err]

\* The outcome of an edit: val is the memory size the edit asked for.
SeqEdit(op, st, val) ==
  /\ UNCHANGED notSeqVars
  /\ seq_obj' = st.obj
  /\ UNCHANGED seq_view
  /\ res' = [op |-> op, err |-> st.err, val |-> val]

\* Indices and slices [start:stop] the edits are called with, and the slice
\* a list of length n resolves them to (0-based, stop not below start).
Indices == {-1, 0, 1, MaxSeqLen}
Slices == {[start |-> 0, stop |-> MaxSeqLen], [start |-> 0, stop |-> 1],
           [start |-> 1, stop |-> 2], [start |-> 1, stop |-> 1]}
Min(a, b) == IF a < b THEN a ELSE b
SliceStart(sl, n) == Min(sl.start, n)
SliceStop(sl, n) == Max(SliceStart(sl, n), Min(sl.stop, n))
PosIndex(index, n) == IF index >= 0 THEN index ELSE n + index

\* can_resize of view_tuple.
can_resize_Always(obj, view, target) == TRUE
can_resize(obj, view, target) ==
  IF target <= obj.ob_size THEN TRUE
  ELSE seq_mem_size(obj) + (target - obj.ob_size) * PTR_SIZE <= view.mem_allocated

\* TupleView.insert, for one item; ob_size is raised by one.
InsertStep(st, view) ==
  IF st.err # "ok" THEN st
  ELSE IF ~can_resize(st.obj, view, st.obj.ob_size + 1) /\ ~SeqUnsafe(view)
    THEN SeqState(st.obj, UnsafeError)
  ELSE SeqState([st.obj EXCEPT !.ob_size = @ + 1], "ok")

\* MutableSequence.extend: one append, that is one insert, per item.
RECURSIVE ExtendLoop(_, _, _)
ExtendLoop(st, view, k) ==
  IF k = 0 THEN st ELSE ExtendLoop(InsertStep(st, view), view, k - 1)

\* v.insert(index, value), v.append(value), v.extend(k items)
TupleExtend(op, k) ==
  /\ seq_obj.ob_type = "tuple"
  /\ seq_obj.ob_size + k <= MaxSeqLen
  /\ SeqEdit(op, ExtendLoop(SeqState(seq_obj, "ok"), seq_view, k),
             struct_mem_size("PyTupleObject", PyTuple(seq_obj.ob_size + k)))

\* len(temp) after temp[sl] = value, value of n items.
SliceLen2(sl, size, n) == size - (SliceStop(sl, size) - SliceStart(sl, size)) + n

\* v[sl] = value, value of n items
TupleSetSlice(sl, n) ==
  /\ seq_obj.ob_type = "tuple"
  /\ SliceLen2(sl, seq_obj.ob_size, n) <= MaxSeqLen
  /\ SeqEdit("tuple_setslice",
             IF ~can_resize(seq_obj, seq_view, SliceLen2(sl, seq_obj.ob_size, n))
                /\ ~SeqUnsafe(seq_view)
               THEN SeqState(seq_obj, UnsafeError)
               ELSE SeqState([seq_obj EXCEPT !.ob_size = SliceLen2(sl, @, n)], "ok"),
             struct_mem_size("PyTupleObject",
                             PyTuple(SliceLen2(sl, seq_obj.ob_size, n))))

\* del v[index] and v.pop(index): the items behind are shifted down and
\* ob_size is lowered by one.
TupleDelItem(op, index) ==
  /\ seq_obj.ob_type = "tuple"
  /\ SeqEdit(op,
             IF PosIndex(index, seq_obj.ob_size) >= seq_obj.ob_size
                \/ PosIndex(index, seq_obj.ob_size) < 0
               THEN SeqState(seq_obj, IndexError)
               ELSE SeqState([seq_obj EXCEPT !.ob_size = @ - 1], "ok"),
             0)

\* del v[sl]: the items of the slice are deleted, the last one first.
TupleDelSlice(sl) ==
  /\ seq_obj.ob_type = "tuple"
  /\ SeqEdit("tuple_delslice",
             SeqState([seq_obj EXCEPT !.ob_size = SliceLen2(sl, @, 0)], "ok"), 0)

\* The strs given to the edits of a StrView.
StrVals == {<<>>, <<97>>, <<233>>, <<8364>>, <<97, 97>>}

\* _check_resize and _str_move: the characters become those of target, and
\* the str is no longer interned.
StrMove(obj, view, target) ==
  IF str_mem_size(target) > view.mem_allocated /\ ~SeqUnsafe(view)
    THEN SeqState(obj, UnsafeError)
    ELSE SeqState(PyStr(target, 0), "ok")

StrEdit(op, target) ==
  /\ Len(target) <= MaxSeqLen
  /\ SeqEdit(op, StrMove(seq_obj, seq_view, target), str_mem_size(target))

StrRaise(op, err) == SeqEdit(op, SeqState(seq_obj, err), 0)

\* The characters with those of value in place of the positions s+1..e.
Splice(chars, s, e, value) ==
  SubSeq(chars, 1, s) \o value \o SubSeq(chars, e + 1, Len(chars))

\* v[index] = value
StrSetItem(index, value) ==
  /\ seq_obj.ob_type = "str"
  /\ IF Len(value) > 1 THEN StrRaise("str_setitem", ValueError)
     ELSE IF PosIndex(index, Len(seq_obj.chars)) >= Len(seq_obj.chars)
             \/ PosIndex(index, Len(seq_obj.chars)) < 0
       THEN StrRaise("str_setitem", IndexError)
     ELSE StrEdit("str_setitem",
                  Splice(seq_obj.chars, PosIndex(index, Len(seq_obj.chars)),
                         PosIndex(index, Len(seq_obj.chars)) + 1, value))

\* v[sl] = value
StrSetSlice(sl, value) ==
  /\ seq_obj.ob_type = "str"
  /\ StrEdit("str_setslice",
             Splice(seq_obj.chars, SliceStart(sl, Len(seq_obj.chars)),
                    SliceStop(sl, Len(seq_obj.chars)), value))

\* del v[index]
StrDelItem(index) ==
  /\ seq_obj.ob_type = "str"
  /\ IF PosIndex(index, Len(seq_obj.chars)) >= Len(seq_obj.chars)
        \/ PosIndex(index, Len(seq_obj.chars)) < 0
       THEN StrRaise("str_delitem", IndexError)
       ELSE StrEdit("str_delitem",
                    Splice(seq_obj.chars, PosIndex(index, Len(seq_obj.chars)),
                           PosIndex(index, Len(seq_obj.chars)) + 1, <<>>))

\* list.insert places the item at the index clamped to the list.
InsertPos(index, n) == IF index >= 0 THEN Min(index, n) ELSE Max(0, n + index)

\* v.insert(index, value) and v.append(value)
StrInsert(op, index, value) ==
  /\ seq_obj.ob_type = "str"
  /\ StrEdit(op, Splice(seq_obj.chars, InsertPos(index, Len(seq_obj.chars)),
                        InsertPos(index, Len(seq_obj.chars)), value))

\* str.replace(s, value, "", 1)
Occurrences(chars, value) ==
  {k \in 0..(Len(chars) - Len(value)) : SubSeq(chars, k + 1, k + Len(value)) = value}
ReplaceFirst(chars, value) ==
  IF value = <<>> \/ Occurrences(chars, value) = {} THEN chars
  ELSE LET k == CHOOSE j \in Occurrences(chars, value) :
                  \A i \in Occurrences(chars, value) : j <= i
       IN Splice(chars, k, k + Len(value), <<>>)

\* v.remove(value)
StrRemove(value) ==
  /\ seq_obj.ob_type = "str"
  /\ StrEdit("str_remove", ReplaceFirst(seq_obj.chars, value))

\* sorted(chars)
RECURSIVE SortChars(_)
SortChars(chars) ==
  IF chars = <<>> THEN <<>>
  ELSE LET k == CHOOSE j \in DOMAIN chars :
                  \A i \in DOMAIN chars : chars[j] < chars[i] \/ (chars[j] = chars[i] /\ j <= i)
       IN <<chars[k]>> \o SortChars(Splice(chars, k - 1, k, <<>>))

\* v.sort(): nothing is done for the empty str.
StrSort ==
  /\ seq_obj.ob_type = "str"
  /\ IF seq_obj.chars = <<>> THEN StrRaise("str_sort", "ok")
     ELSE StrEdit("str_sort", SortChars(seq_obj.chars))

\* --------------------------------------------- TypeView.immutable, as_mutable
\* as_mutable() scopes are nested at most MaxMutDepth deep.
MaxMutDepth == 2

\* view(t).immutable = value, outside any as_mutable() scope.
SetImmutable(t, value) ==
  /\ UNCHANGED <<memVars, extVars>>
  /\ mut_scopes = <<>>
  /\ immutable' = [immutable EXCEPT ![t] = value]
  /\ UNCHANGED <<tp_dict, _cache, _impls, mut_scopes>>
  /\ res' = TypeRes("set_immutable", t, <<>>, "ok", Absent, NotCached)

\* `with view(t).as_mutable():` is entered: the generator runs to its yield.
\* The scope remembers whether the type was immutable, which is the branch
\* the generator is suspended in.
EnterMutable(t) ==
  /\ UNCHANGED <<memVars, extVars>>
  /\ Len(mut_scopes) < MaxMutDepth
  /\ mut_scopes' = Append(mut_scopes, [type |-> t, immutable |-> immutable[t]])
  /\ immutable' = [immutable EXCEPT ![t] = FALSE]
  /\ UNCHANGED <<tp_dict, _cache, _impls>>
  /\ res' = TypeRes("enter_mutable", t, <<>>, "ok", Absent, NotCached)

\* The body of the innermost as_mutable() scope ends, normally or (exc) by
\* an exception, which is thrown into the generator at its yield: the lines
\* after the yield run only on a normal end.
ExitMutable(exc) ==
  /\ UNCHANGED <<memVars, extVars>>
  /\ Len(mut_scopes) > 0
  /\ LET top == mut_scopes[Len(mut_scopes)] IN
       /\ immutable' = IF top.immutable /\ ~exc
                          THEN [immutable EXCEPT ![top.type] = TRUE]
                          ELSE immutable
       /\ res' = TypeRes("exit_mutable", top.type, <<>>,
                         IF exc THEN "Exception" ELSE "ok", Absent, NotCached)
  /\ mut_scopes' = SubSeq(mut_scopes, 1, Len(mut_scopes) - 1)
  /\ UNCHANGED <<tp_dict, _cache, _impls>>

\* ------------------------------------------- local scopes used by threads
\* The outcome of a step of thread t on its view.
ThreadRes(op, t, err, val) ==
  [op |-> op, view |-> OwnView[t], other |-> OwnView[t], err |-> err,
   val |-> val, thread |-> t]

\* Thread t enters `with v.unsafe():` on its own view: ctx() up to its yield.
ThreadEnter(t) ==
  /\ UNCHANGED notThrVars
  /\ thr_pc[t] = "idle"
  /\ thr_depth[t] < MaxDepth
  /\ thr_depth' = [thr_depth EXCEPT ![t] = @ + 1]
  /\ views' = [views EXCEPT ![OwnView[t]]._local_unsafe = TRUE]
  /\ res' = ThreadRes("thread_enter", t, "ok", 0)
  /\ UNCHANGED <<mem, alive, envRef, _global_unsafe, scopes, thr_pc>>

\* The body of thread t's innermost scope ends, normally or by an exception:
\* the finally clause of ctx() runs either way.
ThreadExit(t, exc) ==
  /\ UNCHANGED notThrVars
  /\ thr_pc[t] = "idle"
  /\ thr_depth[t] > 0
  /\ thr_depth' = [thr_depth EXCEPT ![t] = @ - 1]
  /\ views' = [views EXCEPT ![OwnView[t]]._local_unsafe = FALSE]
  /\ res' = ThreadRes("thread_exit", t, IF exc THEN "raised" ELSE "ok", 0)
  /\ UNCHANGED <<mem, alive, envRef, _global_unsafe, scopes, thr_pc>>

\* Thread t calls a gated setter of its view: unsafe_call tests self._unsafe
\* and raises UnsafeError, or goes on to the setter.
ThreadCheck(t) ==
  /\ UNCHANGED notThrVars
  /\ thr_pc[t] = "idle"
  /\ IF _unsafe(OwnView[t])
       THEN /\ thr_pc' = [thr_pc EXCEPT ![t] = "setter"]
            /\ res' = ThreadRes("thread_check", t, "ok", 0)
       ELSE /\ thr_pc' = thr_pc
            /\ res' = ThreadRes("thread_check", t, UnsafeError, 0)
  /\ UNCHANGED <<mem, alive, envRef, views, _global_unsafe, scopes, thr_depth>>

\* The setter runs: thread t writes the reference count through its view.
ThreadWrite(t, value) ==
  /\ UNCHANGED notThrVars
  /\ thr_pc[t] = "setter"
  /\ thr_pc' = [thr_pc EXCEPT ![t] = "idle"]
  /\ mem' = [mem EXCEPT ![views[OwnView[t]]._pyobject].ob_refcnt = value]
  /\ res' = ThreadRes("thread_write", t, "ok", value)
  /\ UNCHANGED <<alive, envRef, views, _global_unsafe, scopes, thr_depth>>

\* ------------------------------------------------ TypeView.__setattr__
\* The tp_name setter stores value.encode("utf-8"): only a str has encode.
\* The tp_flags setter and the forwarded setattr store the value as it is,
\* and ctypes raises TypeError for a value that is not of the field's kind.
SetterStores(key, value) ==
  IF key = "tp_name" THEN PyVal("bytes", value.v) ELSE value

SetterError(key, value) ==
  IF key = "tp_name"
    THEN IF value.kind = "str" THEN "ok" ELSE AttributeError
    ELSE IF value.kind = FieldKind(key) THEN "ok" ELSE TypeError

\* TypeView.__setattr__(key, value) for a key starting with tp_ : a key in
\* the class's __dict__ goes to its property setter at once; any other field
\* of the record is written only with the capability.
TpSetattrError(v, key, value) ==
  IF InClassDict(key) THEN SetterError(key, value)
  ELSE IF ~_unsafe(v) THEN UnsafeError
  ELSE SetterError(key, value)

TpSetattr(v, key, value) ==
  /\ UNCHANGED notFieldVars
  /\ Live(v)
  /\ tp_fields' =
       IF TpSetattrError(v, key, value) = "ok"
         THEN [tp_fields EXCEPT ![ViewedType[v]][key] = SetterStores(key, value)]
         ELSE tp_fields
  /\ res' = [op |-> "tp_setattr", view |-> v, other |-> key,
             err |-> TpSetattrError(v, key, value), val |-> value]
  /\ UNCHANGED memVars

\* ------------------------------------------------- TypeView.alloc_slot
\* Allocation works on a state [p, h, k]: the pointers, the structures and
\* the keep-alive lists.
SlotState(p, h, k) == [p |-> p, h |-> h, k |-> k]

\* The allocation of one slot (the body of the loop of _allocate_methods): a
\* null pointer is set to a new structure, which is also appended to the
\* type's list in PY_METHOD_STRUCTS; a pointer that is set is left alone.
AllocField_Always(st, t, f) ==
  SlotState([st.p EXCEPT ![t][f] = Len(st.h) + 1],
            Append(st.h, MethodStruct(ptr_type(f), TRUE)),
            [st.k EXCEPT ![t] = Append(@, Len(st.h) + 1)])

AllocField(st, t, f) ==
  IF st.p[t][f] = NULL_PTR
    THEN SlotState([st.p EXCEPT ![t][f] = Len(st.h) + 1],
                   Append(st.h, MethodStruct(ptr_type(f), TRUE)),
                   [st.k EXCEPT ![t] = Append(@, Len(st.h) + 1)])
    ELSE st

RECURSIVE AllocFields(_, _, _)
AllocFields(st, t, slots) ==
  IF slots = <<>> THEN st
  ELSE AllocFields(AllocField(st, t, Head(slots)), t, Tail(slots))

\* _allocate_methods(obj, *slots, subclasses): the subclasses first (each
\* with its own subclasses), then the type itself.
RECURSIVE _allocate_methods(_, _, _, _)
RECURSIVE AllocSubclasses(_, _, _)
AllocSubclasses(st, subs, slots) ==
  IF subs = <<>> THEN st
  ELSE AllocSubclasses(_allocate_methods(st, Head(subs), slots, TRUE),
                       Tail(subs), slots)

_allocate_methods(st, t, slots, subclasses) ==
  IF slots = <<>> THEN st
  ELSE AllocFields(IF subclasses THEN AllocSubclasses(st, Subclasses(t), slots)
                                 ELSE st,
                   t, slots)

\* The arguments alloc_slot is called with: none (all four fields), one
\* field, or two.
AllocArgs ==
  {<<>>, <<"tp_as_sequence", "tp_as_mapping">>} \cup {<<f>> : f \in SlotFieldSet}

\* view(t).alloc_slot(*slot, subclasses=subclasses); val is the number of
\* structures the call made.
AllocSlot(t, slot, subclasses) ==
  /\ UNCHANGED notSlotVars
  /\ LET st == _allocate_methods(SlotState(tp_as, method_heap, PY_METHOD_STRUCTS), t,
                                 IF slot = <<>> THEN SlotFields ELSE slot, subclasses)
     IN /\ tp_as' = st.p
        /\ method_heap' = st.h
        /\ PY_METHOD_STRUCTS' = st.k
        /\ res' = [op |-> "alloc_slot", type |-> t,
                   names |-> IF slot = <<>> THEN SlotFields ELSE slot,
                   err |-> "ok", val |-> Len(st.h) - Len(method_heap)]

\* ---------------------------------------------------------- whole system
Next ==
  \/ NewViewAny
  \/ \E v \in ViewIds : EnterLocal(v)
  \/ \E exc \in BOOLEAN : ExitLocal(exc)
  \/ EnterGlobal
  \/ \E exc \in BOOLEAN : ExitGlobal(exc)
  \/ \E v \in ViewIds, value \in RefVals : SetRefCount(v, value)
  \/ \E v \in ViewIds, value \in TypeVals : SetType(v, value)
  \/ \E v \in ViewIds, value \in SizeVals : SetSize(v, value)
  \/ \E v \in ViewIds, f \in Fields : GetField(v, f)
  \/ \E v \in ViewIds, op \in {"base", "invert"} : Base(v, op)
  \/ \E v \in ViewIds : Drop(v)
  \/ \E o \in Objs : DelObj(o)
  \/ \E d \in ViewIds, s \in ViewIds, arb \in ArbOffsets : MoveFrom(d, s, arb)
  \/ \E a \in ViewIds, b \in ViewIds, arb1 \in ArbOffsets, arb2 \in ArbOffsets :
       Swap(a, b, arb1, arb2)
  \/ \E v \in ViewIds : ForgetView(v)
  \/ \E t \in PatchTypes, n \in PatchNames, value \in PatchVals : SetItem(t, n, value)
  \/ \E t \in PatchTypes, n \in PatchNames : DelItem(t, n)
  \/ \E t \in PatchTypes, names \in RestoreArgs : Restore(t, names)
  \/ \E t \in PatchTypes : RestoreAll(t)
  \/ \E t \in PatchTypes, n \in PatchNames : OrigRead(t, n)
  \/ \E t \in PatchTypes, value \in BOOLEAN : SetImmutable(t, value)
  \/ \E t \in PatchTypes : EnterMutable(t)
  \/ \E exc \in BOOLEAN : ExitMutable(exc)
  \/ \E t \in SlotTypes, slot \in AllocArgs, subclasses \in BOOLEAN :
       AllocSlot(t, slot, subclasses)
  \/ \E v \in ViewIds, key \in FieldKeys : \E value \in FieldVals(key) :
       TpSetattr(v, key, value)
  \/ \E t \in Threads : ThreadEnter(t)
  \/ \E t \in Threads, exc \in BOOLEAN : ThreadExit(t, exc)
  \/ \E t \in Threads : ThreadCheck(t)
  \/ \E t \in Threads, value \in RefVals : ThreadWrite(t, value)
  \/ \E targets \in ImplTargets, func \in ImplFuncs, detach \in BOOLEAN :
       Impl(targets, func, detach)
  \/ \E fz \in finalizers : Finalize(fz)
  \/ \E n \in IntVals : NewIntView(n)
  \/ \E arg \in SetterArgs : SetValue(arg)
  \/ \E obj \in SeqObjects : NewSeqView(obj)
  \/ \E k \in 1..3 : TupleExtend(IF k = 1 THEN "tuple_insert" ELSE "tuple_extend", k)
  \/ \E sl \in Slices, n \in 0..3 : TupleSetSlice(sl, n)
  \/ \E op \in {"tuple_delitem", "tuple_pop"}, index \in Indices : TupleDelItem(op, index)
  \/ \E sl \in Slices : TupleDelSlice(sl)
  \/ \E index \in Indices, value \in StrVals : StrSetItem(index, value)
  \/ \E sl \in Slices, value \in StrVals : StrSetSlice(sl, value)
  \/ \E index \in Indices : StrDelItem(index)
  \/ \E index \in Indices, value \in StrVals :
       StrInsert(IF index = MaxSeqLen THEN "str_append" ELSE "str_insert", index, value)
  \/ \E value \in StrVals : StrRemove(value)
  \/ StrSort

Spec == Init /\ [][Next]_vars

\* The whole system is explored one component at a time: the states of the
\* capability protocol, of the view lifetime and of the move engine multiply.

\* ------------------------------------------ capability protocol (unsafe.py)
\* An int and a tuple, each with a view holding a reference, and a view of
\* the int that was dropped before.
InitCap ==
  /\ mem = [o \in Objs |->
             [NewRecord(o, IF o = "o1" THEN [ob_type |-> "int", ob_size |-> 1]
                                       ELSE [ob_type |-> "tuple", ob_size |-> 4])
                EXCEPT !.ob_refcnt = 2]]
  /\ alive = [o \in Objs |-> TRUE]
  /\ envRef = [o \in Objs |-> TRUE]
  /\ views = [v \in ViewIds |->
               IF v = "v1" THEN ViewOf(mem, "o1")
               ELSE IF v = "v2" THEN ViewOf(mem, "o2")
               ELSE DropView(ViewOf(mem, "o1"))]
  /\ _global_unsafe = FALSE
  /\ scopes = <<>>
  /\ res = NoRes
  /\ TypesUntouched
  /\ ExtUntouched

NextCap ==
  \/ \E v \in ViewIds : EnterLocal(v)
  \/ \E exc \in BOOLEAN : ExitLocal(exc)
  \/ EnterGlobal
  \/ \E exc \in BOOLEAN : ExitGlobal(exc)
  \/ \E v \in ViewIds, value \in RefVals : SetRefCount(v, value)
  \/ \E v \in ViewIds, value \in TypeVals : SetType(v, value)
  \/ \E v \in ViewIds, value \in SizeVals : SetSize(v, value)
  \/ \E v \in ViewIds, f \in {"ref_count", "type", "size"} : GetField(v, f)

SpecCap == InitCap /\ [][NextCap]_vars

\* ----------------------------------------------- view lifetime (View)
\* An int (no weak references) and an instance of a plain class (weak
\* references), no view yet.
InitView ==
  /\ mem = [o \in Objs |->
             NewRecord(o, IF o = "o1" THEN [ob_type |-> "int", ob_size |-> 1]
                                      ELSE [ob_type |-> "Obj", ob_size |-> 0])]
  /\ alive = [o \in Objs |-> TRUE]
  /\ envRef = [o \in Objs |-> TRUE]
  /\ views = [v \in ViewIds |-> FreeView]
  /\ _global_unsafe = FALSE
  /\ scopes = <<>>
  /\ res = NoRes
  /\ TypesUntouched
  /\ ExtUntouched

NextView ==
  \/ NewViewAny
  \/ \E v \in ViewIds : EnterLocal(v)
  \/ \E exc \in BOOLEAN : ExitLocal(exc)
  \/ EnterGlobal
  \/ \E exc \in BOOLEAN : ExitGlobal(exc)
  \/ \E v \in ViewIds, f \in Fields : GetField(v, f)
  \/ \E v \in ViewIds, op \in {"base", "invert"} : Base(v, op)
  \/ \E v \in ViewIds : Drop(v)
  \/ \E o \in Objs : DelObj(o)
  \/ \E v \in ViewIds : ForgetView(v)

SpecView == InitView /\ [][NextView]_vars

\* ------------------------------------------------ move engine (_moves.py)
\* An instance on which an attribute has been set has its dict.
WithAttrs(rec, o) ==
  IF dict_kind(rec) # "none"
    THEN [rec EXCEPT !.dict = DictOf(o), !.dictrc = 1] ELSE rec

\* Any two of the objects P, each with a view holding a reference;
\* attributes have been set on both instances (A has TRUE) or on neither.
MoveInit(P, A) ==
  /\ \E f \in [Objs -> P], attrs \in A :
       mem = [o \in Objs |->
                IF attrs
                  THEN WithAttrs([NewRecord(o, f[o]) EXCEPT !.ob_refcnt = 2], o)
                  ELSE [NewRecord(o, f[o]) EXCEPT !.ob_refcnt = 2]]
  /\ alive = [o \in Objs |-> TRUE]
  /\ envRef = [o \in Objs |-> TRUE]
  /\ views = [v \in ViewIds |->
               IF v = "v1" THEN ViewOf(mem, "o1")
               ELSE IF v = "v2" THEN ViewOf(mem, "o2")
               ELSE FreeView]
  /\ _global_unsafe = FALSE
  /\ scopes = <<>>
  /\ res = NoRes
  /\ TypesUntouched
  /\ ExtUntouched

InitMove == MoveInit(Presets, {FALSE})

\* Moves are called with at most one scope open.
NextMove ==
  \/ \E v \in ViewIds : Len(scopes) = 0 /\ EnterLocal(v)
  \/ \E exc \in BOOLEAN : ExitLocal(exc)
  \/ Len(scopes) = 0 /\ EnterGlobal
  \/ \E exc \in BOOLEAN : ExitGlobal(exc)
  \/ \E d \in ViewIds, s \in ViewIds, arb \in ArbOffsets : MoveFrom(d, s, arb)
  \/ \E a \in ViewIds, b \in ViewIds, arb1 \in ArbOffsets, arb2 \in ArbOffsets :
       Swap(a, b, arb1, arb2)
  \/ \E v \in ViewIds : ForgetView(v)

SpecMove == InitMove /\ [][NextMove]_vars

\* --------------------------------------- moves of instances with a dict
\* The preset objects whose type has an instance dict.
DictPresets == {p \in Presets : TypeInfo[p.ob_type].tp_dictoffset # 0}

InitDict == MoveInit(DictPresets, BOOLEAN)

SpecDict == InitDict /\ [][NextMove]_vars

\* --------------------------------------- patching of types (view_type.py)
\* The classes as defined, nothing patched, no view in use.
InitType == InitView

NextType ==
  \/ \E t \in PatchTypes, n \in PatchNames, value \in PatchVals : SetItem(t, n, value)
  \/ \E t \in PatchTypes, n \in PatchNames : DelItem(t, n)
  \/ \E t \in PatchTypes, names \in RestoreArgs : Restore(t, names)
  \/ \E t \in PatchTypes : RestoreAll(t)
  \/ \E t \in PatchTypes, n \in PatchNames : OrigRead(t, n)

SpecType == InitType /\ [][NextType]_vars

\* ------------------------------------- mutability toggle (TypeView.as_mutable)
\* The classes as defined (mutable); they are made immutable through the
\* setter, and x is set, deleted and restored inside and outside scopes.
InitMutable == InitView

NextMutable ==
  \/ \E t \in PatchTypes, value \in BOOLEAN : SetImmutable(t, value)
  \/ \E t \in PatchTypes : EnterMutable(t)
  \/ \E exc \in BOOLEAN : ExitMutable(exc)
  \/ \E t \in PatchTypes, value \in PatchVals : SetItem(t, "x", value)
  \/ \E t \in PatchTypes : DelItem(t, "x")
  \/ \E t \in PatchTypes : Restore(t, <<"x">>)

SpecMutable == InitMutable /\ [][NextMutable]_vars

\* --------------------------------------- sub-structure allocation (alloc_slot)
InitSlots == InitView

NextSlots ==
  \/ \E t \in SlotTypes, slot \in AllocArgs, subclasses \in BOOLEAN :
       AllocSlot(t, slot, subclasses)

SpecSlots == InitSlots /\ [][NextSlots]_vars

\* ------------------------------------- raw type fields (TypeView.__setattr__)
\* Two TypeViews and a dropped one, as in the capability protocol.
InitFields == InitCap

NextFields ==
  \/ \E v \in ViewIds : Len(scopes) = 0 /\ EnterLocal(v)
  \/ \E exc \in BOOLEAN : ExitLocal(exc)
  \/ Len(scopes) = 0 /\ EnterGlobal
  \/ \E exc \in BOOLEAN : ExitGlobal(exc)
  \/ \E v \in ViewIds, key \in FieldKeys : \E value \in FieldVals(key) :
       TpSetattr(v, key, value)

SpecFields == InitFields /\ [][NextFields]_vars

\* ------------------------------------------------ threads with local scopes
\* An int and a tuple, each with the view of one thread; no thread uses the
\* global scope.
InitThreads == InitCap

NextThreads ==
  \/ \E t \in Threads : ThreadEnter(t)
  \/ \E t \in Threads, exc \in BOOLEAN : ThreadExit(t, exc)
  \/ \E t \in Threads : ThreadCheck(t)
  \/ \E t \in Threads, value \in RefVals : ThreadWrite(t, value)

SpecThreads == InitThreads /\ [][NextThreads]_vars

\* ----------------------------------------------- impl with detach (impl)
InitImpl == InitView

NextImpl ==
  \/ \E targets \in ImplTargets, func \in ImplFuncs, detach \in BOOLEAN :
       Impl(targets, func, detach)
  \/ \E fz \in finalizers : Finalize(fz)

SpecImpl == InitImpl /\ [][NextImpl]_vars

\* ------------------------------------------------ IntView.value (view_int)
InitInt == InitView

NextInt ==
  \/ \E n \in IntVals : NewIntView(n)
  \/ \E arg \in SetterArgs : SetValue(arg)

SpecInt == InitInt /\ [][NextInt]_vars

\* ------------------------------- edits in place outside any capability
InitSeq == InitView

NextSeq ==
  \/ \E obj \in SeqObjects : NewSeqView(obj)
  \/ \E k \in 1..3 : TupleExtend(IF k = 1 THEN "tuple_insert" ELSE "tuple_extend", k)
  \/ \E sl \in Slices, n \in 0..3 : TupleSetSlice(sl, n)
  \/ \E op \in {"tuple_delitem", "tuple_pop"}, index \in Indices : TupleDelItem(op, index)
  \/ \E sl \in Slices : TupleDelSlice(sl)
  \/ \E index \in Indices, value \in StrVals : StrSetItem(index, value)
  \/ \E sl \in Slices, value \in StrVals : StrSetSlice(sl, value)
  \/ \E index \in Indices : StrDelItem(index)
  \/ \E index \in Indices, value \in StrVals :
       StrInsert(IF index = MaxSeqLen THEN "str_append" ELSE "str_insert", index, value)
  \/ \E value \in StrVals : StrRemove(value)
  \/ StrSort

SpecSeq == InitSeq /\ [][NextSeq]_vars

\* ================================================================ claims
\* The with-blocks open around the current statement.
GlobalOpen == \E i \in DOMAIN scopes : scopes[i].kind = "global"

LocalOpen(v) == \E i \in DOMAIN scopes : scopes[i].kind = "local" /\ scopes[i].view = v

InScope(v) == GlobalOpen \/ LocalOpen(v)

\* The gated setters, the header field each writes and the getter reading it.
WriteOps == {"set_ref_count", "set_type", "set_size"}

WrittenField(op) ==
  CASE op = "set_ref_count" -> "ob_refcnt"
    [] op = "set_type"      -> "ob_type"
    [] OTHER                -> "ob_size"

ReadOpOf(op) ==
  CASE op = "set_ref_count" -> "get_ref_count"
    [] op = "set_type"      -> "get_type"
    [] OTHER                -> "get_size"

\* C1: a write to a gated field (ref_count, type, size) through a live view is
\* performed iff a capability scope covering the view is open at the time of
\* the write: outside any scope the setter raises UnsafeError and memory is
\* unchanged; inside a scope the write succeeds, the field holds the written
\* value and a read following the write returns it.
C1_GatedWriteIffInScope ==
  [][ /\ (res'.op \in WriteOps /\ Live(res'.view)) =>
           IF InScope(res'.view)
             THEN /\ res'.err = "ok"
                  /\ mem'[views[res'.view]._pyobject][WrittenField(res'.op)] = res'.val
             ELSE /\ res'.err = UnsafeError
                  /\ mem' = mem
      /\ (/\ res.op \in WriteOps /\ res.err = "ok"
          /\ res'.op = ReadOpOf(res.op) /\ res'.view = res.view
          /\ res'.err = "ok") => res'.val = res.val
    ]_vars

\* C2: scopes nest: after an inner scope has exited, every scope still open
\* keeps its flag, so its view is still capable for the rest of its body.
C2_OuterScopeKeepsCapability ==
  \A i \in DOMAIN scopes :
    IF scopes[i].kind = "global" THEN _global_unsafe
    ELSE views[scopes[i].view]._local_unsafe

\* C3: a scope never outlives its body: once every scope has exited, normally
\* or by an exception, no flag is left set and no view is capable.
C3_NoCapabilityOutlivesScopes ==
  scopes = <<>> =>
    /\ ~_global_unsafe
    /\ \A v \in ViewIds : Exists(v) => ~views[v]._local_unsafe /\ ~_unsafe(v)

\* C4: the effective capability of a view is its local flag OR the global
\* flag: inside a global scope every view is capable while the local flag of
\* a view without a scope of its own stays false, and with no global scope
\* open a view without a local scope of its own is not capable.
C4_CapabilityIsLocalOrGlobalScope ==
  \A v \in ViewIds : Exists(v) =>
    /\ _unsafe(v) = (views[v]._local_unsafe \/ _global_unsafe)
    /\ GlobalOpen => _unsafe(v)
    /\ ~LocalOpen(v) => ~views[v]._local_unsafe
    /\ (~GlobalOpen /\ ~LocalOpen(v)) => ~_unsafe(v)

\* The accessors of a view.
AccessorOps ==
  { "get_ref_count", "get_type", "get_mem_size", "get_mem_allocated",
    "get_instance_dict", "get_size", "base", "invert" }

\* C5: drop() is terminal and total: every accessor called on a dropped view
\* raises DroppedReferenceError, none returns a value.
C5_DroppedViewAlwaysRaises ==
  (res.op \in AccessorOps /\ Dropped(res.view)) => res.err = DroppedReferenceError

C7_RejectedMoveHasNoEffect ==
  [][ (res'.op \in {"move_from", "swap"} /\ res'.err = UnsafeError) =>
        (mem' = mem /\ views' = views /\ alive' = alive) ]_vars

\* C8: dst.move_from(src) on live views, the source not a gc object and the
\* destination one: without the capability of dst (its local flag or the
\* global flag) it is rejected with the gc-type UnsafeError and nothing
\* changes; with the capability the move proceeds.
C8_NonGcIntoGcNeedsCapability ==
  [][ (/\ res'.op = "move_from"
       /\ Live(res'.view) /\ Live(res'.other)
       /\ ~TypeInfo[mem[views[res'.other]._pyobject].ob_type].HAVE_GC
       /\ TypeInfo[mem[views[res'.view]._pyobject].ob_type].HAVE_GC) =>
        IF views[res'.view]._local_unsafe \/ _global_unsafe
          THEN /\ res'.err = "ok"
               /\ views'[res'.view]._pyobject = DroppedReference
               /\ mem'[views[res'.view]._pyobject].ob_type
                    = mem[views[res'.other]._pyobject].ob_type
          ELSE /\ res'.err = UnsafeError /\ res'.val = "gc type"
               /\ mem' = mem /\ views' = views ]_vars

\* An int refused as the source of a move onto a gc object, no capability
\* being active.
C8_Witness_NonGcIntoGcRejected ==
  /\ res.op = "move_from" /\ res.err = UnsafeError
  /\ res.val = "gc type"
  /\ Live(res.view) /\ Live(res.other)
  /\ ~views[res.view]._local_unsafe /\ ~_global_unsafe
  /\ ~TypeInfo[mem[views[res.other]._pyobject].ob_type].HAVE_GC
  /\ TypeInfo[mem[views[res.view]._pyobject].ob_type].HAVE_GC

\* C9 as stated: without capability dst.move_from(src) is accepted only if
\* src.mem_size <= dst.mem_allocated, and rejected with UnsafeError for every
\* larger source.
C9_AcceptedOnlyWithinMemAllocated ==
  [][ (/\ res'.op = "move_from"
       /\ Live(res'.view) /\ Live(res'.other)
       /\ ~(views[res'.view]._local_unsafe \/ _global_unsafe)) =>
        /\ res'.err = "ok" => mem_size(res'.other) <= views[res'.view].mem_allocated
        /\ mem_size(res'.other) > views[res'.view].mem_allocated
             => res'.err = UnsafeError ]_vars

\* C9 amended: without capability dst.move_from(src) is accepted only if
\* src.mem_size <= max(dst.mem_allocated, offset of dst's own dict slot + one
\* pointer), the second term counting when the destination keeps its dict in
\* a slot at a positive offset; every larger source is rejected with
\* UnsafeError and nothing but a managed dict's materialization is written.
C9_AcceptedOnlyWithinDstAllocated ==
  [][ (/\ res'.op = "move_from"
       /\ Live(res'.view) /\ Live(res'.other)
       /\ ~(views[res'.view]._local_unsafe \/ _global_unsafe)) =>
        LET std == views[res'.view]._struct_type
            rec == mem[views[res'.view]._pyobject]
            off == TypeInfo[rec.ob_type].tp_dictoffset
            bound == IF off # 0 /\ off # -1 /\ slot_offset(std, rec) > 0
                       THEN Max(slot_offset(std, rec) + PTR_SIZE,
                                views[res'.view].mem_allocated)
                       ELSE views[res'.view].mem_allocated
        IN /\ res'.err = "ok" => mem_size(res'.other) <= bound
           /\ mem_size(res'.other) > bound =>
                /\ res'.err = UnsafeError
                /\ res'.val \in {"gc type", "instance dict", "out of bounds"}
                /\ views' = views ]_vars

\* A source larger than dst.mem_allocated accepted without capability.
C9_Witness_AcceptedBeyondMemAllocated ==
  /\ res.op = "move_from" /\ res.err = "ok"
  /\ ~views[res.view]._local_unsafe /\ ~_global_unsafe
  /\ Live(res.other)
  /\ mem_size(res.other) > views[res.view].mem_allocated

\* C10 as stated, its last sentence, for a source keeping its dict in a slot
\* of the instance: without capability a source with an instance dict is
\* never moved onto a destination whose type has no instance dict.
C10_DictSourceNeedsDictDestination ==
  [][ (/\ res'.op = "move_from"
       /\ Live(res'.view) /\ Live(res'.other)
       /\ ~(views[res'.view]._local_unsafe \/ _global_unsafe)
       /\ TypeInfo[mem[views[res'.other]._pyobject].ob_type].tp_dictoffset \notin {0, -1}
       /\ TypeInfo[mem[views[res'.view]._pyobject].ob_type].tp_dictoffset = 0) =>
        res'.err = UnsafeError ]_vars

\* C10 amended: without capability a move whose source carries an instance
\* dict is rejected with UnsafeError, no view changing, unless both sides
\* use the managed-dict convention, or the source's negative dict offset
\* equals the destination's dict offset, or the source's positive dict offset
\* plus one pointer is within max(dst.mem_allocated, offset of dst's own dict
\* slot + one pointer); the destination's type need not have an instance dict.
C10_DictSourceRejectedUnlessRelocatable ==
  [][ \A arb \in ArbOffsets :
        (/\ res'.op = "move_from"
         /\ Live(res'.view) /\ Live(res'.other)
         /\ ~(views[res'.view]._local_unsafe \/ _global_unsafe)
         /\ TypeInfo[mem[views[res'.other]._pyobject].ob_type].tp_dictoffset # 0
         /\ MoveFrom(res'.view, res'.other, arb)) =>
          LET std == views[res'.view]._struct_type
              drec == mem[views[res'.view]._pyobject]
              srec == mem[views[res'.other]._pyobject]
              doff == TypeInfo[drec.ob_type].tp_dictoffset
              dst_off == IF doff = 0 THEN 0 ELSE IF doff = -1 THEN -1
                         ELSE slot_offset(std, drec)
              footprint == IF doff # 0 /\ doff # -1 /\ dst_off > 0
                             THEN Max(dst_off + PTR_SIZE, views[res'.view].mem_allocated)
                             ELSE views[res'.view].mem_allocated
              src_off == IF TypeInfo[srec.ob_type].tp_dictoffset = -1 THEN arb
                         ELSE slot_offset(views[res'.other]._struct_type, srec)
              relocatable ==
                \/ TypeInfo[srec.ob_type].MANAGED_DICT /\ TypeInfo[drec.ob_type].MANAGED_DICT
                \/ src_off < 0 /\ src_off = dst_off
                \/ src_off > 0 /\ src_off + PTR_SIZE <= footprint
          IN ~relocatable => (res'.err = UnsafeError /\ views' = views) ]_vars

\* The move of the test-suite: an instance of an int subclass refused as the
\* source of a move onto a plain int too small for its dict slot.
C10_Witness_DictSourceRejected ==
  /\ res.op = "move_from" /\ res.err = UnsafeError
  /\ res.val = "instance dict"
  /\ Live(res.view) /\ Live(res.other)
  /\ TypeInfo[mem[views[res.other]._pyobject].ob_type].tp_dictoffset # 0
  /\ TypeInfo[mem[views[res.view]._pyobject].ob_type].tp_dictoffset = 0

\* C11: fitting is never overridable: whatever the capability, a move or swap
\* that is performed writes nothing beyond the allocated footprint of the
\* object written to: the source of every performed move fits the
\* destination (for a swap, each object fits the other).
C11_PerformedMoveFits ==
  [][ (/\ res'.op \in {"move_from", "swap"} /\ res'.err = "ok"
       /\ Live(res'.view) /\ Live(res'.other)) =>
        /\ mem_size(res'.other) <=
             dst_allocated_of(views[res'.view]._struct_type,
                              mem[views[res'.view]._pyobject],
                              views[res'.view].mem_allocated)
        /\ res'.op = "swap" =>
             mem_size(res'.view) <=
               dst_allocated_of(views[res'.other]._struct_type,
                                mem[views[res'.other]._pyobject],
                                views[res'.other].mem_allocated) ]_vars

\* The view v reads its record through the struct of the record's current
\* type, as every view does that the factory has made on the object as it
\* is now (a view left live on an object whose type a swap has since changed
\* does not).
Faithful(v) ==
  /\ Live(v)
  /\ views[v]._struct_type = VIEW_TYPES[mem[views[v]._pyobject].ob_type]

\* A move_from of the view res'.other onto the view res'.view, both faithful
\* and on different objects, succeeds in this step.
MoveFromDone ==
  /\ res'.op = "move_from" /\ res'.err = "ok"
  /\ Faithful(res'.view) /\ Faithful(res'.other)
  /\ views[res'.view]._pyobject # views[res'.other]._pyobject

\* The header and payload fields of the source record before the step are
\* those of the record at address od after it.
PayloadCopied(od, os) ==
  /\ mem'[od].ob_type = mem[os].ob_type
  /\ mem'[od].ob_size = mem[os].ob_size
  /\ mem'[od].data = mem[os].data

\* C12 (as stated): after a successful move_from every field of the
\* destination record other than the reference count, the interned state and
\* the cached hash of a str included, equals the value readable from the
\* source immediately before the move.
C12_DestinationEqualsSourceBefore ==
  [][ MoveFromDone =>
        /\ PayloadCopied(views[res'.view]._pyobject, views[res'.other]._pyobject)
        /\ mem'[views[res'.view]._pyobject].interned =
             mem[views[res'.other]._pyobject].interned
        /\ mem'[views[res'.view]._pyobject].hash =
             mem[views[res'.other]._pyobject].hash ]_vars

\* C12 (amended): after a successful move_from the destination record holds
\* the type, size and payload the source had immediately before the move;
\* its interned state and cached hash are those of the source before the
\* move unless the source is read as a str, in which case they are reset (not
\* interned, hash -1); its attached dict is the dict object of a source that
\* has one; and its reference count is the destination's own count before
\* the move plus the two increments of move_from, less the reference the
\* dropped destination view held, never the count of the source.
C12_DestinationTakesSourceFields ==
  [][ MoveFromDone =>
        LET od  == views[res'.view]._pyobject
            os  == views[res'.other]._pyobject
            str == views[res'.other]._struct_type = "PyASCIIObject"
        IN  /\ PayloadCopied(od, os)
            /\ mem'[od].interned = IF str THEN 0 ELSE mem[os].interned
            /\ mem'[od].hash = IF str THEN -1 ELSE mem[os].hash
            /\ dict_kind(mem[os]) # "none" =>
                 /\ mem'[od].dict # NULL
                 /\ mem'[od].dict = mem'[os].dict
                 /\ mem[os].dict # NULL => mem'[od].dict = mem[os].dict
            /\ mem'[od].ob_refcnt =
                 mem[od].ob_refcnt + 2
                   - (IF views[res'.view]._base # None THEN 1 ELSE 0) ]_vars

\* A move_from has just put a str (no longer interned) at an address whose
\* reference count differs from the count of the source.
C12_Witness_StrMovedCountKept ==
  /\ res.op = "move_from" /\ res.err = "ok"
  /\ Faithful(res.other) /\ Faithful(res.val)
  /\ views[res.val]._pyobject # views[res.other]._pyobject
  /\ mem[views[res.val]._pyobject].ob_type = "str"
  /\ mem[views[res.val]._pyobject].data = mem[views[res.other]._pyobject].data
  /\ mem[views[res.val]._pyobject].interned = 0
  /\ mem[views[res.val]._pyobject].ob_refcnt #
       mem[views[res.other]._pyobject].ob_refcnt

\* C13: after a successful move_from the source view is marked dropped, and
\* the call returns a fresh live view on the address the destination view
\* had before the move.
C13_SourceViewDroppedFreshReturned ==
  [][ (res'.op = "move_from" /\ res'.err = "ok") =>
        /\ views'[res'.other]._pyobject = DroppedReference
        /\ views'[res'.val]._pyobject = views[res'.view]._pyobject
        /\ ~Exists(res'.val) ]_vars

\* A swap of the views res'.view and res'.other, both faithful and on
\* different objects, succeeds in this step.
SwapDone ==
  /\ res'.op = "swap" /\ res'.err = "ok"
  /\ Faithful(res'.view) /\ Faithful(res'.other)
  /\ views[res'.view]._pyobject # views[res'.other]._pyobject

\* hash(obj) of a str record: the cached hash unless it is -1, when it is
\* computed from the contents.
NextHash(rec) == IF rec.hash # -1 THEN rec.hash ELSE HashOf(rec.data)

\* A str takes part in the move or swap of this step.
StrTakesPart ==
  \E v \in {res'.view, res'.other} : mem[views[v]._pyobject].ob_type = "str"

\* The record at address o is, after the step, not interned and without a
\* cached hash, so that its next hash is that of its new contents.
StrStateReset(o) ==
  /\ mem'[o].interned = 0
  /\ mem'[o].hash = -1
  /\ mem'[o].ob_type = "str" => NextHash(mem'[o]) = HashOf(mem'[o].data)

\* C14: whenever a str record takes part in a successful move (as source or
\* destination), the moved-onto object ends up not interned and with its
\* cached hash invalidated (-1), so its next hash is computed from its new
\* contents; a swap moves onto both objects.
C14_MovedOntoStrIsUninterned ==
  [][ ((MoveFromDone \/ SwapDone) /\ StrTakesPart) =>
        /\ StrStateReset(views[res'.view]._pyobject)
        /\ res'.op = "swap" => StrStateReset(views[res'.other]._pyobject) ]_vars

\* A swap has just exchanged two strs, both initially interned with a cached
\* hash; the one now under the returned view is not interned and has none.
C14_Witness_SwappedStrsUninterned ==
  /\ res.op = "swap" /\ res.err = "ok"
  /\ Faithful(res.other) /\ Faithful(res.val)
  /\ views[res.val]._pyobject # views[res.other]._pyobject
  /\ mem[views[res.val]._pyobject].ob_type = "str"
  /\ mem[views[res.other]._pyobject].ob_type = "str"
  /\ mem[views[res.val]._pyobject].data # views[res.val]._pyobject
  /\ mem[views[res.val]._pyobject].interned = 0
  /\ mem[views[res.val]._pyobject].hash = -1

\* The swap of this step ran its footprint checks (no capability was active
\* for the receiver) and passed them.
ChecksPassed == ~_unsafe(res'.view)

\* The str state of the record at od after the step is that of the record
\* at os before it.
StrStateCopied(od, os) ==
  /\ mem'[od].interned = mem[os].interned
  /\ mem'[od].hash = mem[os].hash

\* C15 (as stated): a swap that passes the footprint checks leaves at each
\* address the other object's pre-swap contents, reference count excepted
\* and the interned state and cached hash of a str included, so that a
\* second swap restores both.
C15_SwapExchangesAllButCount ==
  [][ (SwapDone /\ ChecksPassed) =>
        LET oa == views[res'.view]._pyobject
            ob == views[res'.other]._pyobject
        IN  /\ PayloadCopied(oa, ob) /\ StrStateCopied(oa, ob)
            /\ PayloadCopied(ob, oa) /\ StrStateCopied(ob, oa) ]_vars

\* C15 (amended): a swap that passes the footprint checks leaves at each
\* address the type, size and payload the other object had before the swap,
\* whatever the two sizes, and leaves each reference count with its own
\* object; so a second swap of the same two objects brings the type, size
\* and payload of both back.  The interned state and cached hash of a str
\* are not exchanged: they are reset.
C15_SwapExchangesPayload ==
  [][ (SwapDone /\ ChecksPassed) =>
        LET oa == views[res'.view]._pyobject
            ob == views[res'.other]._pyobject
        IN  /\ PayloadCopied(oa, ob)
            /\ PayloadCopied(ob, oa)
            /\ mem'[oa].ob_refcnt =
                 mem[oa].ob_refcnt + 1
                   - (IF views[res'.view]._base # None THEN 1 ELSE 0)
            /\ mem'[ob].ob_refcnt = mem[ob].ob_refcnt + 1
            /\ views[res'.view]._struct_type = "PyASCIIObject" =>
                 mem'[ob].interned = 0 /\ mem'[ob].hash = -1
            /\ views[res'.other]._struct_type = "PyASCIIObject" =>
                 mem'[oa].interned = 0 /\ mem'[oa].hash = -1 ]_vars

\* A swap has just brought two strs back to their own original payloads: the
\* second swap of the same two objects.
C15_Witness_SecondSwapRestores ==
  /\ res.op = "swap" /\ res.err = "ok"
  /\ Faithful(res.other) /\ Faithful(res.val)
  /\ views[res.val]._pyobject # views[res.other]._pyobject
  /\ \A o \in Objs : mem[o].data = o /\ mem[o].ob_type = "str"
  /\ ~_unsafe(res.val)

\* C16: after a successful swap both original views, the receiver and the
\* argument, are dropped (two fresh views, one per address, replace them).
C16_SwapDropsBothViews ==
  [][ (res'.op = "swap" /\ res'.err = "ok") =>
        /\ views'[res'.view]._pyobject = DroppedReference
        /\ views'[res'.other]._pyobject = DroppedReference ]_vars

\* Both objects of the swap of this step are of types with an instance dict.
BothCarryDict ==
  \A v \in {res'.view, res'.other} : dict_kind(mem[views[v]._pyobject]) # "none"

\* The instance dict of the object at o before the step: the one attached,
\* or the one its first access creates.
PreDict(o) == IF mem[o].dict = NULL THEN DictOf(o) ELSE mem[o].dict

\* C17: when both objects of a successful swap carry an instance dict, the
\* dicts are exchanged with the storage: afterwards the receiver's object has
\* the dict the argument's object had and the reverse, and each of the two
\* dicts is still alive (its reference count is positive).
C17_SwapExchangesDicts ==
  [][ (SwapDone /\ BothCarryDict) =>
        LET oa == views[res'.view]._pyobject
            ob == views[res'.other]._pyobject
        IN  /\ mem'[oa].dict = PreDict(ob)
            /\ mem'[ob].dict = PreDict(oa)
            /\ DictRc(mem', PreDict(oa)) >= 1
            /\ DictRc(mem', PreDict(ob)) >= 1 ]_vars

\* A swap has just left each of two instances of subclasses of int or tuple
\* with the dict created for the other.
C17_Witness_DictsExchanged ==
  /\ res.op = "swap" /\ res.err = "ok"
  /\ Faithful(res.other) /\ Faithful(res.val)
  /\ views[res.val]._pyobject # views[res.other]._pyobject
  /\ \A o \in Objs : /\ dict_kind(mem[o]) = "slot"
                     /\ mem[o].dict \notin {NULL, DictOf(o)}
                     /\ DictRc(mem, mem[o].dict) >= 1

\* ------------------------------------------------------------------ C18
\* The original a cache slot stands for: the attribute itself, the function
\* a TypeNewWrapper was made of, or Absent for MISSING.
CachedOriginal(c, t, n) == normalize_slot_attr(c[t][n])

\* C18: for each (type, name) the original is captured exactly once: the
\* step that fills the cache slot stores the value the type resolved for the
\* name just before it (MISSING if it resolved none), and no later set,
\* delete, restore or orig() read changes a filled slot.
C18_OriginalCapturedOnce ==
  [][\A t \in PatchTypes, n \in PatchNames :
       /\ in_cache(_cache, t, n) => _cache'[t][n] = _cache[t][n]
       /\ (~in_cache(_cache, t, n) /\ in_cache(_cache', t, n))
            => /\ CachedOriginal(_cache', t, n) = getattr(tp_dict, t, n)
               /\ (_cache'[t][n] = MISSING) = (getattr(tp_dict, t, n) = Absent)]_vars

\* ------------------------------------------------------------------ C19
\* The last operation was view(t)[n] = value on a name not yet set through
\* a TypeView.
FirstSetDone(t, n) ==
  /\ res.op = "setitem" /\ res.type = t /\ res.names = <<n>>
  /\ ~res.patched

NamedPatch == res'.op \in {"setitem", "delitem", "restore"}

\* What is known of name n on type t: the value resolved, the cached
\* original and whether the name is recorded as set.
NameState(d, c, i, t, n) ==
  [resolved |-> getattr(d, t, n), original |-> c[t][n],
   overridden |-> in_impls(i, t, n)]

\* C20: patching is independent per name: a set, delete or restore of names
\* on a type changes neither the resolved value, nor the cached original,
\* nor the overridden-status of any other name on that type, or of any name
\* on an unrelated type.
C20_PatchingIsPerName ==
  [][NamedPatch =>
       \A t \in PatchTypes, n \in PatchNames :
         (t # res'.type \/ \A k \in DOMAIN res'.names : res'.names[k] # n)
           => NameState(tp_dict', _cache', _impls', t, n)
                = NameState(tp_dict, _cache, _impls, t, n)]_vars

\* x was set on both classes and __new__ on B; x has just been restored on B
\* (deleted, B had none), and B's __new__ and A's x are still the set ones.
C20_Witness_OtherNamesKept ==
  /\ res.op = "restore" /\ res.type = "B" /\ res.names = <<"x">>
  /\ res.err = "ok"
  /\ tp_dict["B"]["x"] = Absent
  /\ ~in_impls(_impls, "B", "x")
  /\ tp_dict["B"]["__new__"] = "g" /\ in_impls(_impls, "B", "__new__")
  /\ tp_dict["A"]["x"] = "f" /\ in_impls(_impls, "A", "x")
  /\ _cache["A"]["x"] = Attr("A.x")

\* ------------------------------------------------------------------ C21
\* The step is a write through a TypeView.
TypeWrite == res'.op \in {"setitem", "delitem", "restore", "restore_all"}

\* C21: the mutability toggle is always undone: a TypeView write leaves the
\* type's immutability as it was before the write, and the end of an
\* as_mutable() scope leaves it as it was when the scope was entered,
\* whether the write or the body ended normally or by an exception.
C21_MutabilityToggleUndone ==
  [][/\ TypeWrite => immutable'[res'.type] = immutable[res'.type]
     /\ res'.op = "exit_mutable"
          => immutable'[res'.type] = mut_scopes[Len(mut_scopes)].immutable]_vars

\* ------------------------------------------------------------------ C22
\* The fields the last alloc_slot call named.
Requested(r) == {r.names[k] : k \in DOMAIN r.names}

\* C22: allocation of protocol sub-structures is allocate-if-absent and
\* idempotent: alloc_slot leaves every pointer that is set as it is, on every
\* type, and sets each null pointer it names on its type to a structure that
\* did not exist before, is of the field's kind, is all zero and is pointed
\* to by no other field.
C22_AllocIfAbsent ==
  [][res'.op = "alloc_slot" =>
       /\ \A t \in SlotTypes, f \in SlotFieldSet :
            tp_as[t][f] # NULL_PTR => tp_as'[t][f] = tp_as[t][f]
       /\ \A f \in Requested(res') :
            tp_as[res'.type][f] = NULL_PTR =>
              /\ tp_as'[res'.type][f] \in (DOMAIN method_heap') \ (DOMAIN method_heap)
              /\ method_heap'[tp_as'[res'.type][f]] = MethodStruct(ptr_type(f), TRUE)
              /\ \A t \in SlotTypes, g \in SlotFieldSet :
                   tp_as'[t][g] = tp_as'[res'.type][f] => (t = res'.type /\ g = f)]_vars

\* alloc_slot(tp_as_sequence) was just called on int a second time: it made
\* no structure and int's pointer is one set by an earlier call.
C22_Witness_SecondCallKeepsPointer ==
  /\ res.op = "alloc_slot" /\ res.type = "int"
  /\ res.names = <<"tp_as_sequence">>
  /\ res.val = 0
  /\ tp_as["int"]["tp_as_sequence"] > Len(InitialHeap)
  /\ method_heap[tp_as["int"]["tp_as_sequence"]].zeroed

\* ------------------------------------------------------------------ C23
\* C23: every assignment of a raw type-record field through a TypeView
\* (v.tp_X = value) made while the view is not capable raises UnsafeError and
\* leaves the type record unchanged.
C23_RawFieldWriteIsGated ==
  [][(res'.op = "tp_setattr" /\ ~_unsafe(res'.view))
       => (res'.err = UnsafeError /\ tp_fields' = tp_fields)]_vars

\* ------------------------------------------------------------------ C24
\* C24: with threads that use only the local scope of their own view, a
\* view is capable exactly while its thread is inside a scope of that view,
\* whatever the other thread does.
C24_CapableExactlyInOwnScope ==
  \A t \in Threads : _unsafe(OwnView[t]) <=> thr_depth[t] > 0

C26_SetValueRoundTrip ==
  [][(res'.op = "set_value" /\ res'.obj.type = "int") =>
       IF Len(Digits(Abs(res'.obj.n))) <= Max(Abs(pylong.ob_size), 1)
         THEN res'.err = "ok" /\ PyLong_value(pylong') = res'.obj.n
         ELSE res'.err = "ValueError" /\ pylong' = pylong]_vars

\* ------------------------------------------------------------------ C27
\* C27: growth in place is bounded by the allocation: after any sequence of
\* the edits of a TupleView or StrView made outside any capability, the
\* memory size of the object is at most the mem_allocated the view recorded
\* when it was created, and an edit that asked for more raised UnsafeError.
SeqOps ==
  {"tuple_insert", "tuple_extend", "tuple_setslice", "tuple_delitem",
   "tuple_pop", "tuple_delslice", "str_setitem", "str_setslice",
   "str_delitem", "str_insert", "str_append", "str_remove", "str_sort"}

C27_GrowthBoundedByAllocation ==
  /\ seq_mem_size(seq_obj) <= seq_view.mem_allocated
  /\ (res.op \in SeqOps /\ res.val > seq_view.mem_allocated) => res.err = UnsafeError

\* An edit was refused on an object that earlier edits had grown to the last
\* byte of its allocation.
C27_Witness_RefusedAtTheLimit ==
  /\ res.op \in SeqOps
  /\ res.err = UnsafeError
  /\ res.val > seq_view.mem_allocated
  /\ seq_mem_size(seq_obj) = seq_view.mem_allocated
  /\ seq_obj \notin SeqObjects

C30_MoveKeepsSourceFlag ==
  [][(res'.op = "move_from" /\ res'.err = "ok")
     => views'[res'.other]._local_unsafe = views[res'.other]._local_unsafe]_vars

====
